---- MODULE Spec2Model ----
(***************************************************************************)
(* A model of the query / filter / aggregation core of zeek-mcp.           *)
(*                                                                         *)
(* JavaScript strings are sequences of one-character strings, so that the  *)
(* parsing the code does (split, parseInt, toLowerCase, RegExp) is         *)
(* computed and not assumed.  JavaScript values are tagged records         *)
(* [t |-> tag, v |-> payload]; `undefined` (an absent field) is a value.   *)
(***************************************************************************)
EXTENDS Integers, Sequences, FiniteSets, TLC

VARIABLES pc, logs, maxResults, options, result, call, ret

vars == <<pc, logs, maxResults, options, result, call, ret>>

----------------------------------------------------------------------------
(* Strings                                                                 *)

Digits == <<"0", "1", "2", "3", "4", "5", "6", "7", "8", "9">>
Lower == <<"a", "b", "c", "d", "e", "f", "g", "h", "i", "j", "k", "l", "m",
           "n", "o", "p", "q", "r", "s", "t", "u", "v", "w", "x", "y", "z">>
Upper == <<"A", "B", "C", "D", "E", "F", "G", "H", "I", "J", "K", "L", "M",
           "N", "O", "P", "Q", "R", "S", "T", "U", "V", "W", "X", "Y", "Z">>

Range(s) == {s[i] : i \in DOMAIN s}

PosIn(c, tbl) == CHOOSE i \in DOMAIN tbl : tbl[i] = c

\* White space that parseInt and Number() skip.
WhiteSpace == {" ", "\t", "\n", "\r"}

\* The characters RegExp's `.` does not match without the s flag.
LineTerminators == {"\n", "\r"}

\* String.prototype.toLowerCase, one character.
LowerChar(c) == IF c \in Range(Upper) THEN Lower[PosIn(c, Upper)] ELSE c

\* String.prototype.toLowerCase
toLowerCase(s) == [i \in DOMAIN s |-> LowerChar(s[i])]

\* String.prototype.indexOf(sub), 1-based; 0 when sub does not occur.
indexOf(s, sub) ==
    LET hits == {i \in 1..(Len(s) - Len(sub) + 1) :
                    SubSeq(s, i, i + Len(sub) - 1) = sub}
    IN  IF hits = {} THEN 0 ELSE CHOOSE i \in hits : \A j \in hits : i <= j

\* String.prototype.includes
includes(s, sub) == indexOf(s, sub) # 0

\* String.prototype.split with a non-empty separator.
RECURSIVE split(_, _)
split(s, sep) ==
    LET Cut(i) ==
            IF i = 0 THEN <<s>>
            ELSE <<SubSeq(s, 1, i - 1)>> \o split(SubSeq(s, i + Len(sep), Len(s)), sep)
    IN  Cut(indexOf(s, sep))

\* Array.prototype.join
RECURSIVE join(_, _)
join(parts, sep) ==
    IF parts = <<>> THEN <<>>
    ELSE IF Len(parts) = 1 THEN parts[1]
    ELSE parts[1] \o sep \o join(Tail(parts), sep)

\* String.prototype.padStart(n, "0")
RECURSIVE padStart(_, _)
padStart(s, n) == IF Len(s) >= n THEN s ELSE padStart(<<"0">> \o s, n)

\* The value of a digit in a radix, or -1 when the character is no digit of it.
DigitIn(c, radix) ==
    LET d == IF c \in Range(Digits) THEN PosIn(c, Digits) - 1
             ELSE IF LowerChar(c) \in Range(Lower) THEN PosIn(LowerChar(c), Lower) + 9
             ELSE radix
    IN  IF d < radix THEN d ELSE -1

RECURSIVE SkipWhile(_, _)
SkipWhile(s, set) ==
    IF s # <<>> /\ Head(s) \in set THEN SkipWhile(Tail(s), set) ELSE s

\* The number read from the longest prefix of digits of s; n counts the digits.
RECURSIVE ReadDigits(_, _, _, _)
ReadDigits(s, radix, acc, n) ==
    IF s # <<>> /\ DigitIn(Head(s), radix) >= 0
    THEN ReadDigits(Tail(s), radix, acc * radix + DigitIn(Head(s), radix), n + 1)
    ELSE [val |-> acc, n |-> n, rest |-> s]

\* A JavaScript number that may be NaN.
NaN == [nan |-> TRUE, val |-> 0]
Num(n) == [nan |-> FALSE, val |-> n]

\* The global parseInt(string, radix): leading white space, a sign, for radix 16 a
\* 0x prefix, then the longest run of digits; NaN when there is no digit.
parseInt(str, radix) ==
    LET Value(neg, r) == IF r.n = 0 THEN NaN ELSE Num(IF neg THEN 0 - r.val ELSE r.val)
        Unprefixed(s1) ==
            IF radix = 16 /\ Len(s1) >= 2 /\ s1[1] = "0" /\ s1[2] \in {"x", "X"}
            THEN SubSeq(s1, 3, Len(s1)) ELSE s1
        Unsigned(s0) == IF s0 # <<>> /\ Head(s0) \in {"-", "+"} THEN Tail(s0) ELSE s0
        Signed(s0) == Value(s0 # <<>> /\ Head(s0) = "-",
                            ReadDigits(Unprefixed(Unsigned(s0)), radix, 0, 0))
    IN  Signed(SkipWhile(str, WhiteSpace))

\* Number.prototype.toString of an integer.
RECURSIVE NatToString(_)
NatToString(n) ==
    IF n < 10 THEN <<Digits[n + 1]>>
    ELSE NatToString(n \div 10) \o <<Digits[(n % 10) + 1]>>

IntToString(n) == IF n < 0 THEN <<"-">> \o NatToString(0 - n) ELSE NatToString(n)

----------------------------------------------------------------------------
(* JavaScript values                                                       *)

Undefined == [t |-> "undefined", v |-> 0]
Null == [t |-> "null", v |-> 0]
JsNum(n) == [t |-> "number", v |-> n]
\* The numbers that are not finite: NaN, Infinity and -Infinity.
JsNaN == [t |-> "NaN", v |-> 0]
JsInfinity == [t |-> "Infinity", v |-> 1]
JsNegInfinity == [t |-> "Infinity", v |-> -1]
JsStr(s) == [t |-> "string", v |-> s]
JsBool(b) == [t |-> "boolean", v |-> b]
\* An array holds a sequence of values, an object a function from keys to values.
JsArr(a) == [t |-> "array", v |-> a]
JsObj(f) == [t |-> "object", v |-> f]

\* The typeof operator.
TypeOf(x) ==
    IF x.t \in {"null", "array", "object"} THEN "object"
    ELSE IF x.t \in {"NaN", "Infinity"} THEN "number"
    ELSE x.t

IsArray(x) == x.t = "array"

\* value ?? fallback
Coalesce(x, fallback) == IF x.t \in {"undefined", "null"} THEN fallback ELSE x

\* The strict equality ===. Two arrays or two objects are equal only when they
\* are the same object; a record's value and a filter's value never are.
StrictEq(x, y) == /\ x.t \in {"undefined", "null", "number", "Infinity", "string", "boolean"}
                  /\ x.t = y.t
                  /\ x.v = y.v

StrTrue == <<"t", "r", "u", "e">>
StrFalse == <<"f", "a", "l", "s", "e">>
StrNull == <<"n", "u", "l", "l">>
StrUndefined == <<"u", "n", "d", "e", "f", "i", "n", "e", "d">>
StrNaN == <<"N", "a", "N">>
StrInfinity == <<"I", "n", "f", "i", "n", "i", "t", "y">>
StrObject == <<"[", "o", "b", "j", "e", "c", "t", " ", "O", "b", "j", "e", "c", "t", "]">>

\* String(x). An array joins the strings of its elements with ",", null and
\* undefined elements giving the empty string.
RECURSIVE String(_)
String(x) ==
    CASE x.t = "undefined" -> StrUndefined
      [] x.t = "null" -> StrNull
      [] x.t = "number" -> IntToString(x.v)
      [] x.t = "NaN" -> StrNaN
      [] x.t = "Infinity" -> IF x.v < 0 THEN <<"-">> \o StrInfinity ELSE StrInfinity
      [] x.t = "string" -> x.v
      [] x.t = "boolean" -> IF x.v THEN StrTrue ELSE StrFalse
      [] x.t = "array" ->
            join([i \in DOMAIN x.v |->
                    IF x.v[i].t \in {"undefined", "null"} THEN <<>>
                    ELSE String(x.v[i])], <<",">>)
      [] x.t = "object" -> StrObject

\* Number(string) for the strings of the model: white space is trimmed, the
\* empty string is 0, an optionally signed run of digits is that integer, and
\* anything else is NaN.
StringToNumber(str) ==
    LET Value(neg, r) ==
            IF r.n = 0 \/ SkipWhile(r.rest, WhiteSpace) # <<>> THEN NaN
            ELSE Num(IF neg THEN 0 - r.val ELSE r.val)
        Unsigned(s0) == IF s0 # <<>> /\ Head(s0) \in {"-", "+"} THEN Tail(s0) ELSE s0
        Signed(s0) ==
            IF s0 = <<>> THEN Num(0)
            ELSE Value(s0 # <<>> /\ Head(s0) = "-", ReadDigits(Unsigned(s0), 10, 0, 0))
    IN  Signed(SkipWhile(str, WhiteSpace))

\* ToNumber, as the relational operators apply it to their operands.
ToNumber(x) ==
    CASE x.t = "undefined" -> NaN
      [] x.t = "null" -> Num(0)
      [] x.t = "number" -> Num(x.v)
      [] x.t = "boolean" -> Num(IF x.v THEN 1 ELSE 0)
      [] OTHER -> StringToNumber(String(x))

\* The property obj[key] of an object or an array (own properties only).
GetProp(obj, key) ==
    IF obj.t = "object"
    THEN IF key \in DOMAIN obj.v THEN obj.v[key] ELSE Undefined
    ELSE IF key = <<"l", "e", "n", "g", "t", "h">> THEN JsNum(Len(obj.v))
    ELSE LET idx == {i \in DOMAIN obj.v : IntToString(i - 1) = key}
         IN  IF idx = {} THEN Undefined ELSE obj.v[CHOOSE i \in idx : TRUE]

----------------------------------------------------------------------------
(* Field Resolver: aggregation.ts                                          *)

\* The loop of getNestedValue over the segments of the dotted path.
RECURSIVE WalkPath(_, _)
WalkPath(current, parts) ==
    IF parts = <<>> THEN current
    ELSE IF current.t \in {"null", "undefined"} THEN Undefined
    ELSE IF TypeOf(current) # "object" THEN Undefined
    ELSE WalkPath(GetProp(current, Head(parts)), Tail(parts))

\* getNestedValue(record, field): the literal key first, then the dotted path.
\* Field names are taken outside Object.prototype's property names.
getNestedValue(record, field) ==
    IF field \in DOMAIN record.v THEN record.v[field]
    ELSE WalkPath(record, split(field, <<".">>))

----------------------------------------------------------------------------
(* RegExp, for the patterns the wildcard matchers build: anchors, literal  *)
(* characters, identity escapes, `.` and the quantifiers * + ?.            *)

\* What a call returns or throws.
Returns(b) == IF b THEN "true" ELSE "false"

RxTok(kind, c, q) == [k |-> kind, c |-> c, q |-> q, lazy |-> FALSE]

\* The parse of a pattern source from position i on; toks is what was read.
\* An unescaped ( that no ) closes is an unterminated group, and a quantifier
\* with nothing before it, or after another quantifier, has nothing to repeat.
RECURSIVE RxParse(_, _, _)
RxParse(src, i, toks) ==
    IF i > Len(src) THEN [err |-> FALSE, toks |-> toks]
    ELSE LET c == src[i]
             n == Len(toks)
             bad == [err |-> TRUE, toks |-> <<>>]
         IN  CASE c = "\\" ->
                    IF i = Len(src) THEN bad
                    ELSE RxParse(src, i + 2, Append(toks, RxTok("lit", src[i + 1], "1")))
               [] c = "^" -> RxParse(src, i + 1, Append(toks, RxTok("bol", c, "1")))
               [] c = "$" -> RxParse(src, i + 1, Append(toks, RxTok("eol", c, "1")))
               [] c = "." -> RxParse(src, i + 1, Append(toks, RxTok("any", c, "1")))
               [] c \in {"*", "+", "?"} ->
                    IF n = 0 \/ toks[n].k \in {"bol", "eol"} THEN bad
                    ELSE IF toks[n].q # "1"
                    THEN IF c = "?" /\ ~toks[n].lazy
                         THEN RxParse(src, i + 1, [toks EXCEPT ![n].lazy = TRUE])
                         ELSE bad
                    ELSE IF c = "+"
                    THEN RxParse(src, i + 1, Append(toks, [toks[n] EXCEPT !.q = "*"]))
                    ELSE RxParse(src, i + 1, [toks EXCEPT ![n].q = c])
               [] c = "(" ->
                    IF ")" \notin Range(SubSeq(src, i + 1, Len(src))) THEN bad
                    ELSE RxParse(src, i + 1, Append(toks, RxTok("lit", c, "1")))
               [] OTHER -> RxParse(src, i + 1, Append(toks, RxTok("lit", c, "1")))

\* new RegExp(source, "i"): the compiled pattern, or err for a SyntaxError.
NewRegExp(source) == RxParse(source, 1, <<>>)

\* One atom against one character, under the i flag and without the s flag.
RxAtom(tok, c) ==
    IF tok.k = "any" THEN c \notin LineTerminators
    ELSE LowerChar(tok.c) = LowerChar(c)

\* Whether tokens k.. match s from position p on (backtracking).
RECURSIVE RxMatch(_, _, _, _)
RxMatch(toks, k, s, p) ==
    IF k > Len(toks) THEN TRUE
    ELSE LET tok == toks[k]
             one == p <= Len(s) /\ RxAtom(tok, s[p])
         IN  CASE tok.k = "bol" -> p = 1 /\ RxMatch(toks, k + 1, s, p)
               [] tok.k = "eol" -> p = Len(s) + 1 /\ RxMatch(toks, k + 1, s, p)
               [] tok.q = "1" -> one /\ RxMatch(toks, k + 1, s, p + 1)
               [] tok.q = "?" -> \/ one /\ RxMatch(toks, k + 1, s, p + 1)
                                 \/ RxMatch(toks, k + 1, s, p)
               [] OTHER -> \/ RxMatch(toks, k + 1, s, p)
                           \/ one /\ RxMatch(toks, k, s, p + 1)

\* RegExp.prototype.test: a match starting anywhere in s.
RegExpTest(re, s) == \E p \in 1..(Len(s) + 1) : RxMatch(re.toks, 1, s, p)

RegexMeta == {".", "*", "+", "?", "^", "$", "{", "}", "(", ")", "|", "[", "]", "\\"}

\* str.replace(/[.*+?^${}()|[\]\\]/g, "\\$&")
RECURSIVE escapeRegex(_)
escapeRegex(str) ==
    IF str = <<>> THEN <<>>
    ELSE (IF Head(str) \in RegexMeta THEN <<"\\", Head(str)>> ELSE <<Head(str)>>)
         \o escapeRegex(Tail(str))

----------------------------------------------------------------------------
(* Filter Evaluator: filters.ts                                            *)

\* matchWildcard(value, pattern) of the filters module.
matchWildcard(value, pattern) ==
    IF ~includes(pattern, <<"*">>)
    THEN Returns(toLowerCase(value) = toLowerCase(pattern))
    ELSE LET Test(regex) ==
                 IF regex.err THEN "SyntaxError" ELSE Returns(RegExpTest(regex, value))
             Source(parts) ==
                 <<"^">> \o join([i \in DOMAIN parts |-> escapeRegex(parts[i])], <<".", "*">>)
                         \o <<"$">>
         IN  Test(NewRegExp(Source(split(pattern, <<"*">>))))

\* A 32-bit word is its four bytes, most significant first, so that the shifts
\* and masks of the code keep their width.
RECURSIVE Pow2(_)
Pow2(n) == IF n = 0 THEN 1 ELSE 2 * Pow2(n - 1)

\* a & b on values of `bits` bits.
RECURSIVE BitAnd(_, _, _)
BitAnd(a, b, bits) ==
    IF bits = 0 THEN 0
    ELSE (a % 2) * (b % 2) + 2 * BitAnd(a \div 2, b \div 2, bits - 1)

WordAnd(x, y) == [i \in 1..4 |-> BitAnd(x[i], y[i], 8)]

\* The shift count the << operator uses: ToUint32(count) & 31, and 0 for NaN.
ShiftCount(n) == IF n.nan THEN 0 ELSE n.val % 32

\* ~0 << k as a 32-bit word: the low k bits cleared.
OnesShl(k) ==
    [i \in 1..4 |->
        LET low == k - 8 * (4 - i)
        IN  IF low <= 0 THEN 255 ELSE IF low >= 8 THEN 0 ELSE 256 - Pow2(low)]

ZeroWord == <<0, 0, 0, 0>>

\* What ipv4ToNum and ipv6ToBytes return for a malformed address.
NullAddr == <<>>

\* The loop of ipv4ToNum: num = (num << 8) | octet for each part, or null.
RECURSIVE Ipv4Pack(_, _)
Ipv4Pack(parts, num) ==
    IF parts = <<>> THEN num
    ELSE LET Shift(octet) ==
                 IF octet.nan \/ octet.val < 0 \/ octet.val > 255 THEN NullAddr
                 ELSE Ipv4Pack(Tail(parts), <<num[2], num[3], num[4], octet.val>>)
         IN  Shift(parseInt(Head(parts), 10))

\* ipv4ToNum(ip) of the filters module.
ipv4ToNum(ip) ==
    LET Pack(parts) == IF Len(parts) # 4 THEN NullAddr ELSE Ipv4Pack(parts, ZeroWord)
    IN  Pack(split(ip, <<".">>))

\* expandIpv6(ip): the address with its `::` written out, or null.
expandIpv6(ip) ==
    IF includes(ip, <<":", ":">>)
    THEN LET Groups(half) == IF half # <<>> THEN split(half, <<":">>) ELSE <<>>
             Padded(all) == join([i \in DOMAIN all |-> padStart(all[i], 4)], <<":">>)
             Fill(leftGroups, rightGroups, missing) ==
                 IF missing < 0 THEN NullAddr
                 ELSE Padded(leftGroups \o [i \in 1..missing |-> <<"0", "0", "0", "0">>]
                                        \o rightGroups)
             Expand(leftGroups, rightGroups) ==
                 Fill(leftGroups, rightGroups, 8 - Len(leftGroups) - Len(rightGroups))
             Halves(halves) == Expand(Groups(halves[1]), Groups(halves[2]))
         IN  Halves(split(ip, <<":", ":">>))
    ELSE ip

\* The loop of ipv6ToBytes: two bytes for each group, or null.
RECURSIVE Ipv6Pack(_, _)
Ipv6Pack(groups, bytes) ==
    IF groups = <<>> THEN bytes
    ELSE LET Push(val) ==
                 IF val.nan THEN NullAddr
                 ELSE Ipv6Pack(Tail(groups),
                               bytes \o <<(val.val \div 256) % 256, val.val % 256>>)
         IN  Push(parseInt(Head(groups), 16))

\* ipv6ToBytes(ip): the 16 bytes of the address, or null.
ipv6ToBytes(ip) ==
    LET Pack(groups) == IF Len(groups) # 8 THEN NullAddr ELSE Ipv6Pack(groups, <<>>)
        Groups(expanded) == IF expanded = <<>> THEN NullAddr
                            ELSE Pack(split(expanded, <<":">>))
    IN  Groups(expandIpv6(ip))

\* A faulty variant of Cidr6Loop: only the whole bytes of the prefix are
\* compared.
Cidr6Loop_WholeBytes(ipBytes, netBytes, i, remaining) ==
    \A k \in 1..16 :
        (~remaining.nan /\ 8 * k <= remaining.val) => ipBytes[k] = netBytes[k]

\* The loop of matchCidr6 from byte i on, with `remaining` prefix bits to compare.
RECURSIVE Cidr6Loop(_, _, _, _)
Cidr6Loop(ipBytes, netBytes, i, remaining) ==
    IF i > 16 THEN TRUE
    ELSE IF ~remaining.nan /\ remaining.val >= 8
    THEN IF ipBytes[i] # netBytes[i] THEN FALSE
         ELSE Cidr6Loop(ipBytes, netBytes, i + 1, Num(remaining.val - 8))
    ELSE IF ~remaining.nan /\ remaining.val > 0
    THEN LET mask == 256 - Pow2(8 - remaining.val)
         IN  IF BitAnd(ipBytes[i], mask, 8) # BitAnd(netBytes[i], mask, 8) THEN FALSE
             ELSE Cidr6Loop(ipBytes, netBytes, i + 1, Num(0))
    ELSE TRUE

\* matchCidr6(ip, network, prefix)
matchCidr6(ip, network, prefix) ==
    LET Compare(ipBytes, netBytes) ==
            IF ipBytes = NullAddr \/ netBytes = NullAddr THEN FALSE
            ELSE Cidr6Loop(ipBytes, netBytes, 1, prefix)
    IN  Compare(ipv6ToBytes(ip), ipv6ToBytes(network))

\* A faulty variant of PrefixMask: a prefix of 0 is shifted like any other.
PrefixMask_AlwaysShifted(prefix) ==
    OnesShl(ShiftCount(IF prefix.nan THEN NaN ELSE Num(32 - prefix.val)))

\* prefix === 0 ? 0 : ~0 << (32 - prefix), as a 32-bit word. A NaN prefix makes
\* the shift count 0, and counts outside 0..31 wrap.
PrefixMask(prefix) ==
    IF ~prefix.nan /\ prefix.val = 0 THEN ZeroWord
    ELSE OnesShl(ShiftCount(IF prefix.nan THEN NaN ELSE Num(32 - prefix.val)))

\* matchCidr(ip, cidr) of the filters module, IPv6-aware.
matchCidr(ip, cidr) ==
    IF ~includes(cidr, <<"/">>) THEN ip = cidr
    ELSE LET Masked(ipNum, netNum, mask) ==
                 IF ipNum = NullAddr \/ netNum = NullAddr THEN FALSE
                 ELSE WordAnd(ipNum, mask) = WordAnd(netNum, mask)
             Match(network, prefix) ==
                 IF includes(ip, <<":">>) \/ includes(network, <<":">>)
                 THEN matchCidr6(ip, network, prefix)
                 ELSE Masked(ipv4ToNum(ip), ipv4ToNum(network), PrefixMask(prefix))
             Parts(parts) == Match(parts[1], parseInt(parts[2], 10))
         IN  Parts(split(cidr, <<"/">>))

----------------------------------------------------------------------------
(* Query engine: engine.ts                                                 *)

\* The loop of the query engine's own ipv4ToNum.
RECURSIVE engine_Ipv4Pack(_, _)
engine_Ipv4Pack(parts, num) ==
    IF parts = <<>> THEN num
    ELSE LET Shift(octet) ==
                 IF octet.nan \/ octet.val < 0 \/ octet.val > 255 THEN NullAddr
                 ELSE engine_Ipv4Pack(Tail(parts), <<num[2], num[3], num[4], octet.val>>)
         IN  Shift(parseInt(Head(parts), 10))

\* ipv4ToNum(ip), the private copy of the query engine.
engine_ipv4ToNum(ip) ==
    LET Pack(parts) == IF Len(parts) # 4 THEN NullAddr ELSE engine_Ipv4Pack(parts, ZeroWord)
    IN  Pack(split(ip, <<".">>))

\* A faulty variant of engine_PrefixMask: a prefix of 0 is shifted like any
\* other.
engine_PrefixMask_AlwaysShifted(prefix) ==
    OnesShl(ShiftCount(IF prefix.nan THEN NaN ELSE Num(32 - prefix.val)))

\* prefix === 0 ? 0 : ~0 << (32 - prefix) in the query engine's matchCidr.
engine_PrefixMask(prefix) ==
    IF ~prefix.nan /\ prefix.val = 0 THEN ZeroWord
    ELSE OnesShl(ShiftCount(IF prefix.nan THEN NaN ELSE Num(32 - prefix.val)))

\* matchCidr(ip, cidr), the private copy of the query engine: IPv4 only.
engine_matchCidr(ip, cidr) ==
    IF ~includes(cidr, <<"/">>) THEN ip = cidr
    ELSE LET Masked(ipNum, netNum, mask) ==
                 IF ipNum = NullAddr \/ netNum = NullAddr THEN FALSE
                 ELSE WordAnd(ipNum, mask) = WordAnd(netNum, mask)
             Parts(parts) ==
                 Masked(engine_ipv4ToNum(ip), engine_ipv4ToNum(parts[1]),
                        engine_PrefixMask(parseInt(parts[2], 10)))
         IN  Parts(split(cidr, <<"/">>))

\* A faulty variant of engine_escape: nothing is escaped.
engine_escape_Nothing(str) == str

\* The query engine's own s.replace(/[.*+?^${}()|[\]\\]/g, "\\$&")
\* (the pattern is the one of escapeRegex).
RECURSIVE engine_escape(_)
engine_escape(str) ==
    IF str = <<>> THEN <<>>
    ELSE (IF Head(str) \in RegexMeta THEN <<"\\", Head(str)>> ELSE <<Head(str)>>)
         \o engine_escape(Tail(str))

\* matchWildcard(value, pattern), the private copy of the query engine.
engine_matchWildcard(value, pattern) ==
    IF ~includes(pattern, <<"*">>)
    THEN Returns(toLowerCase(value) = toLowerCase(pattern))
    ELSE LET Test(regex) ==
                 IF regex.err THEN "SyntaxError" ELSE Returns(RegExpTest(regex, value))
             Source(parts) ==
                 <<"^">> \o join([i \in DOMAIN parts |-> engine_escape(parts[i])], <<".", "*">>)
                         \o <<"$">>
         IN  Test(NewRegExp(Source(split(pattern, <<"*">>))))

\* value > other and its kin, for a value that is a number: the other operand
\* goes through ToNumber and every comparison with NaN is false.
NumGt(value, other) == LET n == ToNumber(other) IN ~n.nan /\ value.v > n.val
NumGte(value, other) == LET n == ToNumber(other) IN ~n.nan /\ value.v >= n.val
NumLt(value, other) == LET n == ToNumber(other) IN ~n.nan /\ value.v < n.val
NumLte(value, other) == LET n == ToNumber(other) IN ~n.nan /\ value.v <= n.val

\* value === filter.value || String(value) === String(filter.value)
LooseEq(value, fv) == StrictEq(value, fv) \/ String(value) = String(fv)

\* A faulty variant of LooseNeq: the string forms are not compared.
LooseNeq_StrictOnly(value, fv) == ~StrictEq(value, fv)

\* value !== filter.value && String(value) !== String(filter.value)
LooseNeq(value, fv) == ~StrictEq(value, fv) /\ String(value) # String(fv)

\* applyFilter(record, filter): "true", "false", or the error it throws.
applyFilter(record, filter) ==
    LET value == getNestedValue(record, filter.field)
        fv == filter.value
    IN  CASE filter.op = "eq" ->
                Returns(LooseEq(value, fv))
          [] filter.op = "neq" ->
                Returns(LooseNeq(value, fv))
          [] filter.op = "gt" -> Returns(TypeOf(value) = "number" /\ NumGt(value, fv))
          [] filter.op = "gte" -> Returns(TypeOf(value) = "number" /\ NumGte(value, fv))
          [] filter.op = "lt" -> Returns(TypeOf(value) = "number" /\ NumLt(value, fv))
          [] filter.op = "lte" -> Returns(TypeOf(value) = "number" /\ NumLte(value, fv))
          [] filter.op = "contains" ->
                IF TypeOf(value) = "string"
                THEN Returns(includes(toLowerCase(value.v), toLowerCase(String(fv))))
                ELSE IF IsArray(value)
                THEN Returns(\E i \in DOMAIN value.v :
                                includes(toLowerCase(String(value.v[i])),
                                         toLowerCase(String(fv))))
                ELSE "false"
          [] filter.op = "wildcard" ->
                engine_matchWildcard(String(Coalesce(value, JsStr(<<>>))), String(fv))
          [] filter.op = "cidr" ->
                Returns(engine_matchCidr(String(Coalesce(value, JsStr(<<>>))), String(fv)))
          [] filter.op = "in" ->
                IF IsArray(fv)
                THEN Returns(\/ \E i \in DOMAIN fv.v : StrictEq(fv.v[i], value)
                             \/ \E i \in DOMAIN fv.v : String(fv.v[i]) = String(value))
                ELSE "false"
          [] filter.op = "exists" -> Returns(value.t \notin {"undefined", "null"})
          [] OTHER -> "true"

\* A faulty variant of EveryFilter: a record passes when some filter accepts it.
EveryFilter_AnyPasses(record, filters, i) ==
    Returns(\E k \in DOMAIN filters : applyFilter(record, filters[k]) = "true")

\* options.filters.every(filter => applyFilter(record, filter)) from filter i on:
\* it stops at the first filter that does not return true.
RECURSIVE EveryFilter(_, _, _)
EveryFilter(record, filters, i) ==
    IF i > Len(filters) THEN "true"
    ELSE LET Continue(r) == IF r = "true" THEN EveryFilter(record, filters, i + 1) ELSE r
         IN  Continue(applyFilter(record, filters[i]))

\* records.filter(...) from record i on; an error thrown by a filter ends it.
RECURSIVE FilterRecords(_, _, _, _)
FilterRecords(records, filters, i, kept) ==
    IF i > Len(records) THEN [err |-> "none", recs |-> kept]
    ELSE LET Keep(r) ==
                 IF r \notin {"true", "false"} THEN [err |-> r, recs |-> <<>>]
                 ELSE FilterRecords(records, filters, i + 1,
                                    IF r = "true" THEN Append(kept, records[i]) ELSE kept)
         IN  Keep(EveryFilter(records[i], filters, 1))

\* The characters of the model's strings in the order of the root collation
\* localeCompare uses (letters by their lower case; case is a later level).
CollationOrder ==
    <<"\t", "\n", "\r", " ", "_", "-", ",", ";", ":", "!", "?", ".", "(", ")",
      "[", "]", "@", "*", "/", "+", "=">> \o Digits \o Lower

\* Lexicographic comparison of two sequences of integers: -1, 0 or 1.
RECURSIVE SeqCompare(_, _)
SeqCompare(a, b) ==
    IF a = <<>> THEN (IF b = <<>> THEN 0 ELSE -1)
    ELSE IF b = <<>> THEN 1
    ELSE IF Head(a) < Head(b) THEN -1
    ELSE IF Head(a) > Head(b) THEN 1
    ELSE SeqCompare(Tail(a), Tail(b))

\* String.prototype.localeCompare: first by the letters regardless of case,
\* then lower case before upper case.
localeCompare(a, b) ==
    LET primary(s) == [i \in DOMAIN s |-> PosIn(LowerChar(s[i]), CollationOrder)]
        case(s) == [i \in DOMAIN s |-> IF s[i] \in Range(Upper) THEN 1 ELSE 0]
        p == SeqCompare(primary(a), primary(b))
    IN  IF p # 0 THEN p ELSE SeqCompare(case(a), case(b))

Sign(n) == IF n < 0 THEN -1 ELSE IF n > 0 THEN 1 ELSE 0

\* A faulty variant of SortComparator: the direction is applied to absent values too.
SortComparator_AbsentFollowsOrder(a, b, sortField, sortOrder) ==
    LET Directed(cmp) == IF sortOrder = <<"d", "e", "s", "c">> THEN 0 - cmp ELSE cmp
        Compare(aVal, bVal) ==
            Directed(IF aVal.t = "undefined" /\ bVal.t = "undefined" THEN 0
                     ELSE IF aVal.t = "undefined" THEN 1
                     ELSE IF bVal.t = "undefined" THEN -1
                     ELSE IF TypeOf(aVal) = "number" /\ TypeOf(bVal) = "number"
                     THEN Sign(aVal.v - bVal.v)
                     ELSE localeCompare(String(aVal), String(bVal)))
    IN  Compare(getNestedValue(a, sortField), getNestedValue(b, sortField))

\* The comparator executeQuery hands to sort.
SortComparator(a, b, sortField, sortOrder) ==
    LET Directed(cmp) == IF sortOrder = <<"d", "e", "s", "c">> THEN 0 - cmp ELSE cmp
        Compare(aVal, bVal) ==
            IF aVal.t = "undefined" /\ bVal.t = "undefined" THEN 0
            ELSE IF aVal.t = "undefined" THEN 1
            ELSE IF bVal.t = "undefined" THEN -1
            ELSE Directed(IF TypeOf(aVal) = "number" /\ TypeOf(bVal) = "number"
                          THEN Sign(aVal.v - bVal.v)
                          ELSE localeCompare(String(aVal), String(bVal)))
    IN  Compare(getNestedValue(a, sortField), getNestedValue(b, sortField))

\* The comparators the code hands to sort, named by a record: executeQuery's
\* (by a field, in an order) and the aggregator's (by count, descending, on
\* <<key, count>> entries). CompareFn(c, x, y) is the comparator's result.
QueryOrder(sortField, sortOrder) == [kind |-> "query", field |-> sortField, order |-> sortOrder]
CountOrder == [kind |-> "count", field |-> <<>>, order |-> <<>>]
\* The beacon detector's comparators: (a, b) => a - b on timestamps and
\* (a, b) => b.score - a.score on candidates.
NumberOrder == [kind |-> "number", field |-> <<>>, order |-> <<>>]
ScoreOrder == [kind |-> "score", field |-> <<>>, order |-> <<>>]

CompareFn(c, x, y) ==
    CASE c.kind = "query" -> SortComparator(x, y, c.field, c.order)
      [] c.kind = "count" -> y[2] - x[2]
      [] c.kind = "number" -> x - y
      [] c.kind = "score" -> y.score - x.score

\* Array.prototype.sort as the runtime (V8, under Node) runs it on fewer than
\* 64 elements: the leading run is counted, reversed when strictly descending,
\* and the rest is put in place by binary insertion. With a consistent
\* comparator this is the stable sort; with an inconsistent one it is what
\* the build does.

\* The end of the run that starts arr[1], arr[2] (CountAndMakeRun).
RECURSIVE RunLength(_, _, _, _)
RunLength(arr, idx, descending, c) ==
    IF idx > Len(arr) THEN idx - 1
    ELSE IF descending = (CompareFn(c, arr[idx], arr[idx - 1]) < 0)
    THEN RunLength(arr, idx + 1, descending, c)
    ELSE idx - 1

Reverse(a) == [i \in DOMAIN a |-> a[Len(a) + 1 - i]]

\* The binary search of BinaryInsertionSort: where pivot goes in arr[left..right-1].
RECURSIVE InsertionPoint(_, _, _, _, _)
InsertionPoint(arr, pivot, left, right, c) ==
    IF left >= right THEN left
    ELSE LET mid == left + ((right - left) \div 2)
         IN  IF CompareFn(c, pivot, arr[mid]) < 0
             THEN InsertionPoint(arr, pivot, left, mid, c)
             ELSE InsertionPoint(arr, pivot, mid + 1, right, c)

\* BinaryInsertionSort from position start on; arr[1..start-1] is in place.
RECURSIVE BinaryInsertionSort(_, _, _)
BinaryInsertionSort(arr, start, c) ==
    IF start > Len(arr) THEN arr
    ELSE LET pivot == arr[start]
             Moved(at) == [i \in DOMAIN arr |->
                              IF i < at \/ i > start THEN arr[i]
                              ELSE IF i = at THEN pivot ELSE arr[i - 1]]
         IN  BinaryInsertionSort(Moved(InsertionPoint(arr, pivot, 1, start, c)),
                                 start + 1, c)

ArraySort(arr, c) ==
    IF Len(arr) < 2 THEN arr
    ELSE LET MakeRun(descending, run) ==
                 BinaryInsertionSort(IF descending
                                     THEN Reverse(SubSeq(arr, 1, run))
                                          \o SubSeq(arr, run + 1, Len(arr))
                                     ELSE arr,
                                     run + 1, c)
             CountRun(descending) == MakeRun(descending, RunLength(arr, 3, descending, c))
         IN  CountRun(CompareFn(c, arr[2], arr[1]) < 0)

\* Array.prototype.slice(0, end)
SliceTo(arr, end) ==
    LET k == IF end < 0 THEN (IF Len(arr) + end < 0 THEN 0 ELSE Len(arr) + end)
             ELSE IF end > Len(arr) THEN Len(arr) ELSE end
    IN  SubSeq(arr, 1, k)

Min(a, b) == IF a < b THEN a ELSE b

\* queryLog(config, logType, timeFrom, timeTo): every record read from the log
\* files, kept when its ts lies in the window. timeFrom and timeTo are taken
\* as already converted to epoch seconds; a comparison with an absent ts is
\* false, so a record without ts is kept.
queryLog(stored, timeFrom, timeTo) ==
    LET keep(r) ==
            LET ts == GetProp(r, <<"t", "s">>)
            IN  /\ ~(timeFrom.t # "undefined" /\ TypeOf(ts) = "number" /\ ts.v < timeFrom.v)
                /\ ~(timeTo.t # "undefined" /\ TypeOf(ts) = "number" /\ ts.v > timeTo.v)
    IN  SelectSeq(stored, keep)

DefaultLimit == 100

\* executeQuery after queryLog has resolved with `records`: filter, sort, cut.
\* err names the error the call rejects with, "none" when it resolves.
executeQuery(records, opts, ceiling) ==
    LET sortField == Coalesce(opts.sortBy, JsStr(<<"t", "s">>)).v
        sortOrder == Coalesce(opts.sortOrder, JsStr(<<"d", "e", "s", "c">>)).v
        limit == Min(Coalesce(opts.limit, JsNum(DefaultLimit)).v, ceiling)
        SortAndCut(filtered) ==
            IF filtered.err # "none" THEN filtered
            ELSE [err |-> "none",
                  recs |-> SliceTo(ArraySort(filtered.recs, QueryOrder(sortField, sortOrder)),
                                   limit)]
    IN  SortAndCut(IF opts.filters.t # "undefined" /\ Len(opts.filters.v) > 0
                   THEN FilterRecords(records, opts.filters.v, 1, <<>>)
                   ELSE [err |-> "none", recs |-> records])

----------------------------------------------------------------------------
(* Aggregator: aggregation.ts                                              *)

GroupDefaultLimit == 20
UnsetKey == <<"(", "u", "n", "s", "e", "t", ")">>

\* The Map key groupBy counts a record under.
GroupKey(record, field) ==
    LET value == getNestedValue(record, field)
    IN  IF value.t # "undefined" /\ value.t # "null" THEN String(value) ELSE UnsetKey

\* A faulty variant of CountKey: a key seen for the first time starts at 2.
CountKey_StartsAtTwo(counts, key) ==
    IF \E i \in DOMAIN counts : counts[i][1] = key
    THEN [i \in DOMAIN counts |->
            IF counts[i][1] = key THEN <<key, counts[i][2] + 1>> ELSE counts[i]]
    ELSE Append(counts, <<key, 2>>)

\* counts.set(key, (counts.get(key) ?? 0) + 1) on the entries of the Map, which
\* it keeps in the order the keys were first set.
CountKey(counts, key) ==
    IF \E i \in DOMAIN counts : counts[i][1] = key
    THEN [i \in DOMAIN counts |->
            IF counts[i][1] = key THEN <<key, counts[i][2] + 1>> ELSE counts[i]]
    ELSE Append(counts, <<key, 1>>)

\* A faulty variant of SortedCounts: the entries are cut before they are
\* sorted.
SortedCounts_SliceFirst(counts, limit) ==
    ArraySort(SliceTo(counts, limit), CountOrder)

\* [...counts.entries()].sort((a, b) => b[1] - a[1]).slice(0, limit)
SortedCounts(counts, limit) == SliceTo(ArraySort(counts, CountOrder), limit)

\* The loop of groupBy over the records from record i on.
RECURSIVE CountRecords(_, _, _, _)
CountRecords(records, field, i, counts) ==
    IF i > Len(records) THEN counts
    ELSE CountRecords(records, field, i + 1, CountKey(counts, GroupKey(records[i], field)))

\* Math.round((count / total) * 10000), the percentage in hundredths of a
\* percent (the code divides it by 100); 0 when there is no record.
Percentage(count, total) ==
    IF total > 0 THEN (2 * count * 10000 + total) \div (2 * total) ELSE 0

\* groupBy(records, field, limit); limit is Undefined when the caller gives
\* none.
groupBy(records, field, limit) ==
    LET counts == CountRecords(records, field, 1, <<>>)
        sorted == SortedCounts(counts, Coalesce(limit, JsNum(GroupDefaultLimit)).v)
        total == Len(records)
    IN  [field |-> field, total |-> total,
         groups |-> [i \in DOMAIN sorted |->
                        [key |-> sorted[i][1], count |-> sorted[i][2],
                         percentage |-> Percentage(sorted[i][2], total)]]]

TopDefaultN == 10

\* counts.set(key, (counts.get(key) ?? 0) + 1) in topN.
TopCountKey(counts, key) ==
    IF \E i \in DOMAIN counts : counts[i][1] = key
    THEN [i \in DOMAIN counts |->
            IF counts[i][1] = key THEN <<key, counts[i][2] + 1>> ELSE counts[i]]
    ELSE Append(counts, <<key, 1>>)

\* The loop of topN over the records from record i on: a record whose value
\* is undefined or null is passed over.
RECURSIVE TopCountRecords(_, _, _, _)
TopCountRecords(records, field, i, counts) ==
    IF i > Len(records) THEN counts
    ELSE LET Count(value) ==
                 IF value.t # "undefined" /\ value.t # "null"
                 THEN TopCountKey(counts, String(value))
                 ELSE counts
         IN  TopCountRecords(records, field, i + 1,
                             Count(getNestedValue(records[i], field)))

\* topN(records, field, n); n is Undefined when the caller gives none.
topN(records, field, n) ==
    LET Entries(sorted) ==
            [i \in DOMAIN sorted |-> [value |-> sorted[i][1], count |-> sorted[i][2]]]
    IN  Entries(SliceTo(ArraySort(TopCountRecords(records, field, 1, <<>>), CountOrder),
                        IF n.t = "undefined" THEN TopDefaultN ELSE n.v))

\* isNaN(x) of a number x.
IsNaN(x) == x.t = "NaN"

\* a + b of two numbers: NaN when either is NaN or when the two are the
\* infinities of opposite sign, an infinity when one of them is that infinity.
NumAdd(a, b) ==
    IF a.t = "NaN" \/ b.t = "NaN" THEN JsNaN
    ELSE IF a.t = "Infinity" /\ b.t = "Infinity"
         THEN (IF a.v = b.v THEN a ELSE JsNaN)
    ELSE IF a.t = "Infinity" THEN a
    ELSE IF b.t = "Infinity" THEN b
    ELSE JsNum(a.v + b.v)

\* total / count for a count above 0: the quotient of a finite total is kept
\* as the pair of its numerator and denominator.
NumDiv(total, count) ==
    IF total.t = "number" THEN [t |-> "quotient", num |-> total.v, den |-> count]
    ELSE total

\* typeof value === "number" && !isNaN(value): the values sumField and
\* avgField add up.
Summed(value) == TypeOf(value) = "number" /\ ~IsNaN(value)

\* The loop of sumField over the records from record i on.
RECURSIVE SumRecords(_, _, _, _)
SumRecords(records, field, i, total) ==
    IF i > Len(records) THEN total
    ELSE LET Add(value) == IF Summed(value) THEN NumAdd(total, value) ELSE total
         IN  SumRecords(records, field, i + 1, Add(getNestedValue(records[i], field)))

sumField(records, field) == SumRecords(records, field, 1, JsNum(0))

\* The loop of avgField over the records from record i on.
RECURSIVE AvgRecords(_, _, _, _, _)
AvgRecords(records, field, i, total, count) ==
    IF i > Len(records) THEN [total |-> total, count |-> count]
    ELSE LET Add(value) ==
                 IF Summed(value)
                 THEN AvgRecords(records, field, i + 1, NumAdd(total, value), count + 1)
                 ELSE AvgRecords(records, field, i + 1, total, count)
         IN  Add(getNestedValue(records[i], field))

avgField(records, field) ==
    LET Average(sum) == IF sum.count > 0 THEN NumDiv(sum.total, sum.count) ELSE JsNum(0)
    IN  Average(AvgRecords(records, field, 1, JsNum(0), 0))

----------------------------------------------------------------------------
(* Beacon Detector: beaconing.ts. Timestamps and byte counts are integers; *)
(* means, deviations and scores are computed exactly, and a value the code *)
(* rounds to two decimals is held in hundredths.                           *)

BeaconMinConnections == 10
BeaconMaxJitter == 30

F_orig_h == <<"i", "d", ".", "o", "r", "i", "g", "_", "h">>
F_resp_h == <<"i", "d", ".", "r", "e", "s", "p", "_", "h">>
F_resp_p == <<"i", "d", ".", "r", "e", "s", "p", "_", "p">>
F_orig_bytes == <<"o", "r", "i", "g", "_", "b", "y", "t", "e", "s">>
F_resp_bytes == <<"r", "e", "s", "p", "_", "b", "y", "t", "e", "s">>

\* !x
Falsy(x) ==
    \/ x.t \in {"undefined", "null", "NaN"}
    \/ x.t = "number" /\ x.v = 0
    \/ x.t = "string" /\ x.v = <<>>
    \/ x.t = "boolean" /\ ~x.v

\* The largest integer whose square is at most n.
RECURSIVE Isqrt(_)
Isqrt(n) ==
    IF n < 2 THEN n
    ELSE LET Pick(r) == IF (r + 1) * (r + 1) <= n THEN r + 1 ELSE r
         IN  Pick(2 * Isqrt(n \div 4))

\* The square root of n * 100^pairs by the digit-by-digit method, from the
\* root and remainder of n: the root found and what remains under it.
RECURSIVE SqrtDigits(_, _, _)
SqrtDigits(root, rem, pairs) ==
    IF pairs = 0 THEN [root |-> root, rem |-> rem]
    ELSE LET Next(x) == SqrtDigits(10 * root + x, 100 * rem - (20 * root + x) * x,
                                   pairs - 1)
         IN  Next(CHOOSE x \in 0..9 :
                     /\ (20 * root + x) * x <= 100 * rem
                     /\ x = 9 \/ (20 * root + x + 1) * (x + 1) > 100 * rem)

SqrtScaled(n, pairs) ==
    LET From(r) == SqrtDigits(r, n - r * r, pairs)
    IN  From(Isqrt(n))

\* Math.round(100 * Math.sqrt(v) / d), for v >= 0 and d > 0.
RoundRoot(v, d) == (SqrtScaled(4 * v, 2).root + d) \div (2 * d)

\* The sum of a sequence of numbers (reduce with +, from 0).
RECURSIVE SumOf(_)
SumOf(s) == IF s = <<>> THEN 0 ELSE Head(s) + SumOf(Tail(s))

\* The key a record is grouped under.
BeaconKey(record) ==
    String(Coalesce(GetProp(record, F_orig_h), JsStr(<<>>))) \o <<"|">>
    \o String(Coalesce(GetProp(record, F_resp_h), JsStr(<<>>))) \o <<"|">>
    \o String(GetProp(record, F_resp_p))

\* pairs.get(key).push(ts), the key being set to [] first when it is new; the
\* entries <<key, timestamps>> of the Map are in the order the keys were set.
PushTimestamp(pairs, key, ts) ==
    IF \E i \in DOMAIN pairs : pairs[i][1] = key
    THEN [i \in DOMAIN pairs |->
            IF pairs[i][1] = key THEN <<key, Append(pairs[i][2], ts)>> ELSE pairs[i]]
    ELSE Append(pairs, <<key, <<ts>>>>)

\* !src || !dst || !ts
SkipsRecord(record) ==
    \/ String(Coalesce(GetProp(record, F_orig_h), JsStr(<<>>))) = <<>>
    \/ String(Coalesce(GetProp(record, F_resp_h), JsStr(<<>>))) = <<>>
    \/ Falsy(GetProp(record, <<"t", "s">>))

\* The first loop of detectBeaconing, over the records from record i on.
RECURSIVE GroupTimestamps(_, _, _)
GroupTimestamps(records, i, pairs) ==
    IF i > Len(records) THEN pairs
    ELSE GroupTimestamps(records, i + 1,
             IF SkipsRecord(records[i]) THEN pairs
             ELSE PushTimestamp(pairs, BeaconKey(records[i]),
                                GetProp(records[i], <<"t", "s">>).v))

Intervals(timestamps) ==
    [i \in 1..(Len(timestamps) - 1) |-> timestamps[i + 1] - timestamps[i]]

\* k times the sum of (interval - mean)^2 over k intervals, which is
\* k * (sum of squares) - (sum)^2: the variance is this over k^2.
SpreadOf(intervals) ==
    Len(intervals) * SumOf([i \in DOMAIN intervals |-> intervals[i] * intervals[i]])
    - SumOf(intervals) * SumOf(intervals)

\* A faulty variant of JitterAbove: no jitter is too high.
JitterAbove_Never(spread, sum, maxJitterPercent) == FALSE

\* jitter > maxJitterPercent, the jitter being 100 * sqrt(spread) / sum.
JitterAbove(spread, sum, maxJitterPercent) ==
    maxJitterPercent < 0
    \/ 10000 * spread > maxJitterPercent * maxJitterPercent * sum * sum

\* The records of the input that match the triple of a key.
RelatedRecords(records, src, dst, port) ==
    SelectSeq(records,
              LAMBDA r : /\ String(GetProp(r, F_orig_h)) = src
                         /\ String(GetProp(r, F_resp_h)) = dst
                         /\ ~port.nan
                         /\ GetProp(r, F_resp_p).t = "number"
                         /\ GetProp(r, F_resp_p).v = port.val)

\* The loop over the related records from record i on: totalBytes and byteCount.
RECURSIVE BytesOf(_, _, _, _)
BytesOf(related, i, totalBytes, byteCount) ==
    IF i > Len(related) THEN [totalBytes |-> totalBytes, byteCount |-> byteCount]
    ELSE LET Resp(resp, total, count) ==
                 BytesOf(related, i + 1,
                         IF TypeOf(resp) = "number" THEN total + resp.v ELSE total, count)
             Orig(orig, resp) ==
                 IF TypeOf(orig) = "number"
                 THEN Resp(resp, totalBytes + orig.v, byteCount + 1)
                 ELSE Resp(resp, totalBytes, byteCount)
         IN  Orig(GetProp(related[i], F_orig_bytes), GetProp(related[i], F_resp_bytes))

\* Math.round(avgBytes)
AvgBytes(bytes) ==
    IF bytes.byteCount > 0
    THEN (2 * bytes.totalBytes + bytes.byteCount) \div (2 * bytes.byteCount)
    ELSE 0

\* A faulty variant of ScoreOf: 100 - jitter is taken as it is, below 0 too.
ScoreOf_Unclamped(spread, sum, n) ==
    LET volume == 15 * (IF n > 200 THEN 200 ELSE n)
        Regular(r) ==
            7000 + volume + ((sum - (r.root + (IF r.rem > 0 THEN 1 ELSE 0))) \div (2 * sum))
    IN  Regular(SqrtScaled(196 * spread, 3))

\* Math.round(score * 100), the score being
\* max(0, 100 - jitter) * 0.7 + min(100, n / 2) * 0.3.
ScoreOf(spread, sum, n) ==
    LET volume == 15 * (IF n > 200 THEN 200 ELSE n)
        Regular(r) ==
            7000 + volume + ((sum - (r.root + (IF r.rem > 0 THEN 1 ELSE 0))) \div (2 * sum))
    IN  IF spread >= sum * sum THEN volume
        ELSE Regular(SqrtScaled(196 * spread, 3))

\* The body of the second loop for one entry of the Map: the candidate it
\* pushes, or nothing.
BeaconCandidate(records, key, unsorted, minConnections, maxJitterPercent) ==
    LET Push(parts, timestamps, intervals, spread, sum) ==
            <<[srcIp |-> parts[1], dstIp |-> parts[2],
               dstPort |-> parseInt(parts[3], 10),
               connectionCount |-> Len(timestamps),
               avgInterval |-> (200 * sum + Len(intervals)) \div (2 * Len(intervals)),
               stdDevInterval |-> RoundRoot(spread, Len(intervals)),
               jitter |-> RoundRoot(spread * 10000, sum),
               avgBytes |-> AvgBytes(BytesOf(RelatedRecords(records, parts[1], parts[2],
                                                            parseInt(parts[3], 10)),
                                             1, 0, 0)),
               score |-> ScoreOf(spread, sum, Len(timestamps))]>>
        Measure(timestamps, intervals, spread, sum) ==
            IF Len(intervals) = 0 THEN <<>>
            ELSE IF sum = 0 THEN <<>>
            ELSE IF JitterAbove(spread, sum, maxJitterPercent) THEN <<>>
            ELSE Push(split(key, <<"|">>), timestamps, intervals, spread, sum)
        Spaced(timestamps, intervals) ==
            Measure(timestamps, intervals, SpreadOf(intervals), SumOf(intervals))
        Sorted(timestamps) == Spaced(timestamps, Intervals(timestamps))
    IN  IF Len(unsorted) < minConnections THEN <<>>
        ELSE Sorted(ArraySort(unsorted, NumberOrder))

\* The second loop of detectBeaconing, over the entries of the Map from
\* entry i on.
RECURSIVE BeaconCandidates(_, _, _, _, _, _)
BeaconCandidates(records, pairs, i, minConnections, maxJitterPercent, candidates) ==
    IF i > Len(pairs) THEN candidates
    ELSE BeaconCandidates(records, pairs, i + 1, minConnections, maxJitterPercent,
             candidates \o BeaconCandidate(records, pairs[i][1], pairs[i][2],
                                           minConnections, maxJitterPercent))

\* detectBeaconing(records, minConnections, maxJitterPercent); a parameter is
\* Undefined when the caller gives none.
detectBeaconing(records, minConnections, maxJitterPercent) ==
    ArraySort(BeaconCandidates(records, GroupTimestamps(records, 1, <<>>), 1,
                  IF minConnections.t = "undefined" THEN BeaconMinConnections
                  ELSE minConnections.v,
                  IF maxJitterPercent.t = "undefined" THEN BeaconMaxJitter
                  ELSE maxJitterPercent.v,
                  <<>>),
              ScoreOrder)

----------------------------------------------------------------------------
(* Anomaly Detector: anomaly.ts. An anomaly is held as one record of its   *)
(* type, severity and details; its description, a text made of the same    *)
(* values, is not carried.                                                 *)

ScanMinPorts == 50
ScanHighPorts == 200
SamplePortCount == 20
ExfilMinSources == 3
ExfilFloor == 104857600
ExfilCritical == 1073741824
UnusualMinCount == 20
UnusualMaxReported == 10
CommonPorts ==
    {20, 21, 22, 25, 53, 67, 68, 80, 110, 123, 143, 161,
     162, 389, 443, 445, 465, 514, 587, 636, 993, 995,
     1433, 1521, 3306, 3389, 5432, 5900, 8080, 8443, 8888}

F_conn_state == <<"c", "o", "n", "n", "_", "s", "t", "a", "t", "e">>
F_service == <<"s", "e", "r", "v", "i", "c", "e">>
S_S0 == <<"S", "0">>
S_REJ == <<"R", "E", "J">>

\* Two values are the same member of a Set or the same key of a Map.
SameMember(a, b) == a.t = b.t /\ a.v = b.v

\* The members of a Set to which the values are added one after the other,
\* or the keys of a Map in which they are set: each value once, in the order
\* the values were first met.
Distinct(values) ==
    LET Members(first) == [k \in DOMAIN first |-> values[first[k]]]
    IN  Members(SelectSeq([i \in DOMAIN values |-> i],
                          LAMBDA i : ~\E j \in 1..(i - 1) :
                                        SameMember(values[j], values[i])))

\* String(record["id.orig_h"] ?? "")
SourceOf(record) == String(Coalesce(GetProp(record, F_orig_h), JsStr(<<>>)))

\* connState === "S0" || connState === "REJ"
NoResponse(record) ==
    String(Coalesce(GetProp(record, F_conn_state), JsStr(<<>>))) \in {S_S0, S_REJ}

\* The first loop of detectPortScans: the entries <<src, ports>> of
\* srcToPorts and <<src, targets>> of srcToTargets once every record has
\* been added.
ScanRecords(records) ==
    LET Of(probes, src) == SelectSeq(probes, LAMBDA r : SourceOf(r) = src)
        Ports(probes) == Distinct([i \in DOMAIN probes |-> GetProp(probes[i], F_resp_p)])
        Targets(probes) ==
            Distinct([i \in DOMAIN probes |->
                         JsStr(String(Coalesce(GetProp(probes[i], F_resp_h), JsStr(<<>>))))])
        Maps(probes, sources) ==
            [srcToPorts |-> [k \in DOMAIN sources |->
                               <<sources[k].v, Ports(Of(probes, sources[k].v))>>],
             srcToTargets |-> [k \in DOMAIN sources |->
                                 <<sources[k].v, Targets(Of(probes, sources[k].v))>>]]
        Sources(probes) ==
            Maps(probes, Distinct([i \in DOMAIN probes |-> JsStr(SourceOf(probes[i]))]))
    IN  Sources(SelectSeq(records, NoResponse))

\* A faulty variant of ManyPorts: the threshold itself is enough.
ManyPorts_AtThreshold(size) == size >= ScanMinPorts

\* ports.size > 50
ManyPorts(size) == size > ScanMinPorts

\* The second loop of detectPortScans over the entries of srcToPorts from
\* entry i on.
RECURSIVE ScanAnomalies(_, _, _)
ScanAnomalies(maps, i, anomalies) ==
    IF i > Len(maps.srcToPorts) THEN anomalies
    ELSE LET Flag(src, ports, targets) ==
                 IF ManyPorts(Len(ports))
                 THEN <<[type |-> "port_scan",
                         severity |-> IF Len(ports) > ScanHighPorts THEN "high"
                                      ELSE "medium",
                         sourceIp |-> src,
                         portsScanned |-> Len(ports),
                         uniqueTargets |-> Len(targets),
                         samplePorts |-> SliceTo(ports, SamplePortCount)]>>
                 ELSE <<>>
         IN  ScanAnomalies(maps, i + 1,
                 anomalies \o Flag(maps.srcToPorts[i][1], maps.srcToPorts[i][2],
                                   maps.srcToTargets[i][2]))

detectPortScans(records) == ScanAnomalies(ScanRecords(records), 1, <<>>)

\* typeof bytes === "number" && bytes > 0; the byte counts are finite numbers
\* or no numbers at all.
SendsBytes(record) ==
    LET Positive(bytes) == bytes.t = "number" /\ bytes.v > 0
    IN  Positive(GetProp(record, F_orig_bytes))

\* The first loop of detectDataExfiltration: the entries <<src, total>> of
\* srcBytes once every record has been added.
SumOutbound(records) ==
    LET Total(sent) == SumOf([i \in DOMAIN sent |-> GetProp(sent[i], F_orig_bytes).v])
        Entries(senders, sources) ==
            [k \in DOMAIN sources |->
                <<sources[k].v,
                  Total(SelectSeq(senders, LAMBDA r : SourceOf(r) = sources[k].v))>>]
        Sources(senders) ==
            Entries(senders, Distinct([i \in DOMAIN senders |-> JsStr(SourceOf(senders[i]))]))
    IN  Sources(SelectSeq(records, SendsBytes))

\* A faulty variant of Outlier: the absolute floor alone is enough.
Outlier_FloorOnly(bytes, threshold) == bytes > ExfilFloor

\* bytes > threshold && bytes > 104857600
Outlier(bytes, threshold) == bytes > threshold /\ bytes > ExfilFloor

\* The second loop of detectDataExfiltration over the entries of srcBytes
\* from entry i on.
RECURSIVE ExfilAnomalies(_, _, _, _, _)
ExfilAnomalies(srcBytes, i, threshold, iqr, anomalies) ==
    IF i > Len(srcBytes) THEN anomalies
    ELSE LET Flag(src, bytes) ==
                 IF Outlier(bytes, threshold)
                 THEN <<[type |-> "data_exfiltration",
                         severity |-> IF bytes > ExfilCritical THEN "critical" ELSE "high",
                         sourceIp |-> src,
                         bytesSent |-> bytes,
                         threshold |-> threshold,
                         iqr |-> iqr]>>
                 ELSE <<>>
         IN  ExfilAnomalies(srcBytes, i + 1, threshold, iqr,
                            anomalies \o Flag(srcBytes[i][1], srcBytes[i][2]))

\* A faulty variant of Q3Index: the place of the median.
Q3Index_Median(n) == (n \div 2) + 1

\* Math.floor(allBytes.length * 0.75), as a place counted from 1.
Q3Index(n) == ((n * 3) \div 4) + 1

detectDataExfiltration(records) ==
    LET Quartiles(srcBytes, q3, q1) ==
            ExfilAnomalies(srcBytes, 1, q3 + 3 * (q3 - q1), q3 - q1, <<>>)
        Sorted(srcBytes, allBytes) ==
            Quartiles(srcBytes, allBytes[Q3Index(Len(allBytes))],
                      allBytes[(Len(allBytes) \div 4) + 1])
        Totals(srcBytes) ==
            IF Len(srcBytes) < ExfilMinSources THEN <<>>
            ELSE Sorted(srcBytes,
                        ArraySort([i \in DOMAIN srcBytes |-> srcBytes[i][2]], NumberOrder))
    IN  Totals(SumOutbound(records))

\* A faulty variant of UnusualPort: the common ports are not left out.
UnusualPort_CommonToo(record) ==
    LET InRange(n) == ~n.nan /\ n.val > 0 /\ n.val < 65536
        Port(port) == ~Falsy(port) /\ InRange(ToNumber(port))
    IN  /\ Port(GetProp(record, F_resp_p))
        /\ String(Coalesce(GetProp(record, F_service), JsStr(<<>>))) = <<>>

\* port && !commonPorts.has(port) && port > 0 && port < 65536 && !service
UnusualPort(record) ==
    LET InRange(n) == ~n.nan /\ n.val > 0 /\ n.val < 65536
        Port(port) ==
            /\ ~Falsy(port)
            /\ ~(port.t = "number" /\ port.v \in CommonPorts)
            /\ InRange(ToNumber(port))
    IN  /\ Port(GetProp(record, F_resp_p))
        /\ String(Coalesce(GetProp(record, F_service), JsStr(<<>>))) = <<>>

\* The first loop of detectUnusualPorts: the entries <<port, count>> of
\* unusualPortCounts once every record has been counted.
CountUnusual(records) ==
    LET Entries(unusual, ports) ==
            [k \in DOMAIN ports |->
                <<ports[k],
                  Len(SelectSeq(unusual,
                                LAMBDA r : SameMember(GetProp(r, F_resp_p), ports[k])))>>]
        Ports(unusual) ==
            Entries(unusual, Distinct([i \in DOMAIN unusual |-> GetProp(unusual[i], F_resp_p)]))
    IN  Ports(SelectSeq(records, UnusualPort))

detectUnusualPorts(records) ==
    LET Report(highVolumePorts) ==
            [i \in DOMAIN highVolumePorts |->
                [type |-> "unusual_port", severity |-> "low",
                 port |-> highVolumePorts[i][1],
                 connectionCount |-> highVolumePorts[i][2]]]
        Sort(counts) ==
            Report(SliceTo(ArraySort(SelectSeq(counts, LAMBDA e : e[2] > UnusualMinCount),
                                     CountOrder),
                           UnusualMaxReported))
    IN  Sort(CountUnusual(records))

detectConnectionAnomalies(records) ==
    detectPortScans(records) \o detectDataExfiltration(records)
    \o detectUnusualPorts(records)

----------------------------------------------------------------------------
(* Entropy Analyzer.  A string is its sequence of UTF-16 code units; a     *)
(* surrogate is named by its hexadecimal value.  The entropy is held       *)
(* exactly: [num, den, len] stands for log2(num / den) / len.              *)

HighSurrogates == {"D83D"}

LowSurrogates == {"DE00", "DE01"}

\* for (const char of input): the iterator of a string gives its code
\* points, a high surrogate followed by a low one being one of them.
RECURSIVE CodePoints(_)
CodePoints(input) ==
    IF input = <<>> THEN <<>>
    ELSE IF /\ Len(input) >= 2
            /\ input[1] \in HighSurrogates
            /\ input[2] \in LowSurrogates
         THEN <<SubSeq(input, 1, 2)>> \o CodePoints(SubSeq(input, 3, Len(input)))
         ELSE <<SubSeq(input, 1, 1)>> \o CodePoints(Tail(input))

\* freq.values(): the count of every key of the map, keys in the order of
\* their first insertion.
FreqValues(chars) ==
    LET first == SelectSeq([i \in 1..Len(chars) |-> i],
                           LAMBDA i : \A j \in 1..(i - 1) : chars[j] # chars[i])
    IN [k \in 1..Len(first) |->
           Cardinality({i \in 1..Len(chars) : chars[i] = chars[first[k]]})]

RECURSIVE Power(_, _)
Power(b, e) == IF e = 0 THEN 1 ELSE b * Power(b, e - 1)

\* The value 0 of the entropy.
EntropyZero == [num |-> 1, den |-> 1, len |-> 1]

\* p = count / len, with len = input.length, as the pair <<count, len>>.
Probability(count, input) == <<count, Len(input)>>

\* if (p > 0) entropy -= p * Math.log2(p): with p = c / n the term is
\* log2((n / c)^c) / n.
EntropyStep(entropy, p) ==
    IF p[1] > 0
    THEN [num |-> entropy.num * Power(p[2], p[1]),
          den |-> entropy.den * Power(p[1], p[1]),
          len |-> entropy.len]
    ELSE entropy

RECURSIVE EntropyLoop(_, _, _)
EntropyLoop(counts, input, entropy) ==
    IF counts = <<>> THEN entropy
    ELSE EntropyLoop(Tail(counts), input,
                     EntropyStep(entropy, Probability(Head(counts), input)))

\* shannonEntropy(input)
shannonEntropy(input) ==
    IF input = <<>> THEN EntropyZero
    ELSE EntropyLoop(FreqValues(CodePoints(input)), input,
                     [num |-> 1, den |-> 1, len |-> Len(input)])

\* The character class [0-9a-fA-F].
HexClass ==
    Range(Digits) \cup {"a", "b", "c", "d", "e", "f", "A", "B", "C", "D", "E", "F"}

\* The character class [A-Za-z0-9+/].
Base64Class == Range(Upper) \cup Range(Lower) \cup Range(Digits) \cup {"+", "/"}

\* The longest run of characters of a class at the start of a string: what
\* a greedy + or * over the class takes.
RECURSIVE ClassRun(_, _)
ClassRun(str, class) ==
    IF str # <<>> /\ Head(str) \in class THEN 1 + ClassRun(Tail(str), class) ELSE 0

\* /^[0-9a-fA-F]+$/.test(input)
TestHex(input) == ClassRun(input, HexClass) >= 1 /\ ClassRun(input, HexClass) = Len(input)

\* /^[A-Za-z0-9+/]+={0,2}$/.test(input): "=" is not of the class, so the run
\* of the class is never given back.
TestBase64(input) ==
    LET Rest(run) ==
            /\ run >= 1
            /\ Len(input) - run <= 2
            /\ \A k \in (run + 1)..Len(input) : input[k] = "="
    IN  Rest(ClassRun(input, Base64Class))

\* A faulty variant of LongEnough: ten characters are enough.
LongEnough_AtTen(input) == Len(input) >= 10

\* input.length > 10
LongEnough(input) == Len(input) > 10

\* detectEncoding(input): "hex", "base64" or "null".
detectEncoding(input) ==
    IF TestHex(input) /\ LongEnough(input) /\ Len(input) % 2 = 0 THEN "hex"
    ELSE IF TestBase64(input) /\ LongEnough(input) THEN "base64"
    ELSE "null"

----------------------------------------------------------------------------
(* The query executor as a state machine: a call is made with its options, *)
(* suspends on queryLog, and resumes to filter, sort and cut.              *)

F_ts == <<"t", "s">>
F_uid == <<"u", "i", "d">>
F_duration == <<"d", "u", "r", "a", "t", "i", "o", "n">>
F_proto == <<"p", "r", "o", "t", "o">>
S_asc == <<"a", "s", "c">>
S_desc == <<"d", "e", "s", "c">>
S_tcp == <<"t", "c", "p">>
S_udp == <<"u", "d", "p">>

\* The log lines the model draws from. Each has its own uid; ts and duration
\* may be absent, and one line carries its duration as a string.
LogLines ==
    << JsObj((F_uid :> JsStr(<<"C", "1">>)) @@ (F_ts :> JsNum(1))
             @@ (F_duration :> JsNum(2)) @@ (F_proto :> JsStr(S_tcp))),
       JsObj((F_uid :> JsStr(<<"C", "2">>)) @@ (F_ts :> JsNum(2))
             @@ (F_duration :> JsNum(10)) @@ (F_proto :> JsStr(S_tcp))),
       JsObj((F_uid :> JsStr(<<"C", "3">>))
             @@ (F_duration :> JsStr(<<"1", "5">>)) @@ (F_proto :> JsStr(S_udp))),
       JsObj((F_uid :> JsStr(<<"C", "4">>)) @@ (F_ts :> JsNum(3))
             @@ (F_proto :> JsStr(S_tcp))),
       JsObj((F_uid :> JsStr(<<"C", "5">>)) @@ (F_ts :> JsNum(2))
             @@ (F_duration :> JsNum(2)) @@ (F_proto :> JsStr(S_udp))) >>

MaxRecords == 3
MaxCeiling == 3

\* The sequences of at most n distinct members of the set ids.
RECURSIVE DistinctSeqs(_, _)
DistinctSeqs(ids, n) ==
    IF n = 0 THEN {<<>>}
    ELSE LET shorter == DistinctSeqs(ids, n - 1)
         IN  shorter \cup {Append(x[1], x[2]) : x \in
                              {y \in shorter \X ids :
                                  Len(y[1]) = n - 1 /\ y[2] \notin Range(y[1])}}

\* The contents the log files may have: at most MaxRecords distinct lines.
LogFiles == {[i \in DOMAIN q |-> LogLines[q[i]]] :
                q \in DistinctSeqs(DOMAIN LogLines, MaxRecords)}

FilterProto == [field |-> F_proto, op |-> "eq", value |-> JsStr(S_tcp)]
FilterDuration == [field |-> F_duration, op |-> "gte", value |-> JsNum(10)]

FilterLists == {<<>>, <<FilterProto>>, <<FilterProto, FilterDuration>>,
                <<FilterDuration, FilterProto>>}

TimeWindows == {<<Undefined, Undefined>>, <<JsNum(2), JsNum(3)>>}

LimitValues == {Undefined, JsNum(-1), JsNum(0), JsNum(2), JsNum(3)}

QueryOptions ==
    { [filters |-> JsArr(f), timeFrom |-> w[1], timeTo |-> w[2],
       sortBy |-> sb, sortOrder |-> so, limit |-> l] :
        f \in FilterLists, w \in TimeWindows,
        sb \in {Undefined, JsStr(F_duration)},
        so \in {Undefined, JsStr(S_asc), JsStr(S_desc)},
        l \in LimitValues }

NoOptions == [filters |-> Undefined, timeFrom |-> Undefined, timeTo |-> Undefined,
              sortBy |-> Undefined, sortOrder |-> Undefined, limit |-> Undefined]

Init ==
    /\ pc = "idle"
    /\ logs \in LogFiles
    /\ maxResults \in 1..MaxCeiling
    /\ options = NoOptions
    /\ result = <<>>
    /\ call = <<>>
    /\ ret = "none"

\* executeQuery(config, options) is called and awaits queryLog.
Invoke ==
    /\ pc = "idle"
    /\ \E o \in QueryOptions : options' = o
    /\ pc' = "awaiting"
    /\ UNCHANGED <<logs, maxResults, result, call, ret>>

\* queryLog resolves and the call runs to its end.
Resume ==
    /\ pc = "awaiting"
    /\ LET out == executeQuery(queryLog(logs, options.timeFrom, options.timeTo),
                               options, maxResults)
       IN  /\ result' = out.recs
           /\ pc' = IF out.err = "none" THEN "resolved" ELSE "rejected"
    /\ UNCHANGED <<logs, maxResults, options, call, ret>>

\* The caller takes the result; the executor keeps nothing of the call.
Return ==
    /\ pc \in {"resolved", "rejected"}
    /\ pc' = "idle"
    /\ options' = NoOptions
    /\ result' = <<>>
    /\ UNCHANGED <<logs, maxResults, call, ret>>

Next == Invoke \/ Resume \/ Return

Spec == Init /\ [][Next]_vars

----------------------------------------------------------------------------
(* Claims about the query executor, under Spec                             *)

\* What queryLog handed to the call that has resolved.
Loaded == queryLog(logs, options.timeFrom, options.timeTo)

\* The limit the caller asked for, 100 when it gave none.
RequestedLimit == Coalesce(options.limit, JsNum(DefaultLimit)).v

\* The loaded records that pass every filter of the call, each taken alone.
PassesAll(r) == \A i \in DOMAIN options.filters.v :
                    applyFilter(r, options.filters.v[i]) = "true"
Passing == SelectSeq(Loaded, PassesAll)

\* The value the call sorts a record by.
SortValue(r) == getNestedValue(r, Coalesce(options.sortBy, JsStr(F_ts)).v)
Ascending == options.sortOrder.t = "string" /\ options.sortOrder.v = S_asc

\* C1: the number of records executeQuery returns exceeds neither
\* config.maxResults nor the requested limit, whatever the limit (absent,
\* zero, negative, above the ceiling). A limit below zero is read as asking
\* for no record, the least any call can return.
C1_WithinLimits ==
    pc = "resolved" =>
        /\ Len(result) <= maxResults
        /\ Len(result) <= (IF RequestedLimit < 0 THEN 0 ELSE RequestedLimit)

\* All the orders of a sequence.
RECURSIVE Orderings(_)
Orderings(q) ==
    IF q = <<>> THEN {<<>>}
    ELSE UNION {{<<q[i]>> \o rest :
                    rest \in Orderings([j \in 1..(Len(q) - 1) |->
                                              IF j < i THEN q[j] ELSE q[j + 1]])} :
                i \in DOMAIN q}

\* C2: the filters combine with AND: every returned record passes every
\* filter; when the limit does not cut the result, the returned records are
\* exactly the loaded records that pass all filters; and the result is the
\* same for every order of the filter list.
C2_FiltersAreAnd ==
    pc = "resolved" =>
        /\ \A i \in DOMAIN result : PassesAll(result[i])
        /\ Len(Passing) <= Min(RequestedLimit, maxResults) =>
              /\ {GetProp(r, F_uid).v : r \in Range(result)}
                    = {GetProp(r, F_uid).v : r \in Range(Passing)}
              /\ Len(result) = Len(Passing)
        /\ \A f \in Orderings(options.filters.v) :
              executeQuery(Loaded, [options EXCEPT !.filters = JsArr(f)],
                           maxResults).recs = result

\* C2 witness: a resolved call with two filters that kept some loaded records
\* and dropped others.
C2_Witness ==
    /\ pc = "resolved"
    /\ Len(options.filters.v) = 2
    /\ result # <<>>
    /\ Len(result) < Len(Loaded)
    /\ Len(result) = Len(Passing)

\* Any two returned records that both hold a number in the sort field are in
\* the requested order.
NumbersInOrder ==
    \A i, j \in DOMAIN result :
        (i < j /\ TypeOf(SortValue(result[i])) = "number"
               /\ TypeOf(SortValue(result[j])) = "number") =>
            IF Ascending THEN SortValue(result[i]).v <= SortValue(result[j]).v
            ELSE SortValue(result[i]).v >= SortValue(result[j]).v

\* Every returned record without the sort field comes after every one with it.
AbsentLast ==
    \A i, j \in DOMAIN result :
        i < j => ~(SortValue(result[i]).t = "undefined" /\ SortValue(result[j]).t # "undefined")

\* C3 as stated: the result is ordered by the sort field, numbers in the
\* requested order and absent values last, for asc and desc alike.
C3_Original == pc = "resolved" => NumbersInOrder /\ AbsentLast

\* C3 as amended: numbers are in the requested order when every record that
\* is sorted (loaded and passing the filters) holds a number in the sort field
\* or lacks it; absent values come last in every case.
C3_Sorted ==
    pc = "resolved" =>
        /\ (\A i \in DOMAIN Passing :
                TypeOf(SortValue(Passing[i])) \in {"number", "undefined"})
              => NumbersInOrder
        /\ AbsentLast

\* C3 witness: a resolved call whose result holds two different numbers and a
\* record without the sort field, every sorted value being a number or absent.
C3_Witness ==
    /\ pc = "resolved"
    /\ \E i, j, k \in DOMAIN result :
          /\ TypeOf(SortValue(result[i])) = "number"
          /\ TypeOf(SortValue(result[j])) = "number"
          /\ SortValue(result[i]).v # SortValue(result[j]).v
          /\ SortValue(result[k]).t = "undefined"
    /\ \A i \in DOMAIN Passing :
          TypeOf(SortValue(Passing[i])) \in {"number", "undefined"}

----------------------------------------------------------------------------
(* The filter evaluator alone: applyFilter applied to one record and one   *)
(* filter definition.                                                      *)

F_f == <<"f">>
F_g == <<"g">>

\* The values the filtered field may hold in the record (Undefined: the record
\* has no such field).
FieldValues ==
    { Undefined, Null, JsNum(0), JsNum(5), JsBool(TRUE),
      JsStr(<<>>), JsStr(<<"a", "(", "b">>), JsStr(<<"1", "0", ".", "0", ".", "0", ".", "1">>), JsStr(<<":", ":", "1">>),
      JsStr(<<"2", "0", "0", "1", ":", "d", "b", "8", ":", ":", "1">>),
      JsArr(<<>>), JsArr(<<JsStr(<<"A", "(">>), JsNum(5)>>),
      JsObj(F_g :> JsNum(5)) }

\* The values a filter definition may carry: of every type, among them
\* patterns with regex metacharacters, malformed CIDR strings, and values that
\* are no number or no list.
FilterValues ==
    { Undefined, Null, JsNum(5), JsBool(FALSE),
      JsStr(<<"5">>), JsStr(<<"a", "(">>), JsStr(<<"a", "(", "*">>), JsStr(<<"*", "(">>), JsStr(<<"[", "*">>),
      JsStr(<<"1", "0", ".", "0", ".", "0", ".", "0", "/", "8">>), JsStr(<<"1", "0", ".", "0", ".", "0", ".", "0", "/", "3", "3">>), JsStr(<<"1", "0", ".", "0", ".", "0", "/", "8">>),
      JsStr(<<"1", "0", ".", "0", ".", "0", ".", "0", "/">>), JsStr(<<":", ":", "1", "/", "1", "2", "8">>), JsStr(<<"2", "0", "0", "1", ":", "d", "b", "8", ":", ":", "/", "3", "2">>),
      JsArr(<<JsNum(5), JsStr(<<"a", "(", "b">>)>>), JsArr(<<>>),
      JsStr(StrUndefined), JsArr(<<JsStr(StrUndefined)>>),
      JsObj(F_g :> JsNum(5)) }

\* The 11 operators of FilterDef.
Operators == {"eq", "neq", "gt", "gte", "lt", "lte", "contains", "wildcard",
              "cidr", "in", "exists"}

\* The operators a caller may pass: the 11, and one that is none of them.
OperatorTags == Operators \cup {"regex"}

FilterCalls ==
    { [record |-> IF v.t = "undefined" THEN JsObj(<<>>) ELSE JsObj(F_f :> v),
       filter |-> [field |-> F_f, op |-> o, value |-> fv]] :
        v \in FieldValues, o \in OperatorTags, fv \in FilterValues }

InitFilter ==
    /\ pc = "ready"
    /\ call \in FilterCalls
    /\ ret = "none"
    /\ logs = <<>>
    /\ maxResults = 1
    /\ options = NoOptions
    /\ result = <<>>

\* applyFilter(record, filter) runs: it returns, or throws.
ApplyFilter ==
    /\ pc = "ready"
    /\ ret' = applyFilter(call.record, call.filter)
    /\ pc' = IF ret' \in {"true", "false"} THEN "returned" ELSE "thrown"
    /\ UNCHANGED <<logs, maxResults, options, result, call>>

NextFilter == ApplyFilter

SpecFilter == InitFilter /\ [][NextFilter]_vars

----------------------------------------------------------------------------
(* Claims about the filter evaluator, under SpecFilter                     *)

\* C4: applyFilter is total. For each of the 11 operators, for an unknown
\* operator and for a filter value of any type, the call returns true or
\* false and never throws.
C4_Total == pc # "ready" => pc = "returned" /\ ret \in {"true", "false"}

\* C4 witness: the wildcard operator has returned for a pattern that holds a
\* "*" and an unbalanced "(".
C4_Witness ==
    /\ pc = "returned"
    /\ call.filter.op = "wildcard"
    /\ call.filter.value.t = "string"
    /\ call.filter.value.v = <<"*", "(">>
    /\ ret = "false"

\* The addresses and networks of the model's calls that are IPv6.
Ipv6Addresses == {<<":", ":", "1">>, <<"2", "0", "0", "1", ":", "d", "b", "8", ":", ":", "1">>}
Ipv6Networks == {<<":", ":", "1", "/", "1", "2", "8">>, <<"2", "0", "0", "1", ":", "d", "b", "8", ":", ":", "/", "3", "2">>}

\* C7: the cidr operator of the query engine supports IPv6: for an IPv6
\* address and an IPv6 network, applyFilter answers what the IPv6-aware
\* matchCidr of the filters module answers.
C7_CidrSupportsIpv6 ==
    (/\ pc # "ready"
     /\ call.filter.op = "cidr"
     /\ call.record.v # <<>>
     /\ call.record.v[F_f].t = "string"
     /\ call.record.v[F_f].v \in Ipv6Addresses
     /\ call.filter.value.t = "string"
     /\ call.filter.value.v \in Ipv6Networks)
    => ret = Returns(matchCidr(call.record.v[F_f].v, call.filter.value.v))

----------------------------------------------------------------------------
(* matchCidr alone: both copies applied to one address and one CIDR string *)

Dotted(a, b, c, d) == a \o <<".">> \o b \o <<".">> \o c \o <<".">> \o d

\* Well-formed IPv4 addresses; they differ in bits of three octets.
Ipv4Samples ==
    { Dotted(a, b, <<"0">>, d) : a \in {<<"1", "0">>, <<"1", "2", "8">>}, b \in {<<"0">>, <<"1">>},
                             d \in {<<"0">>, <<"1">>, <<"2", "5", "5">>} }
    \cup {<<"0", ".", "0", ".", "0", ".", "0">>, <<"2", "5", "5", ".", "2", "5", "5", ".", "2", "5", "5", ".", "2", "5", "5">>}

\* Strings that are no IPv4 address: wrong number of octets, octets that are
\* no decimal number in 0..255.
BadIpv4Samples ==
    {<<>>, <<"x">>, <<"1", ".", "2", ".", "3">>, <<"1", ".", "2", ".", "3", ".", "4", ".", "5">>, <<"2", "5", "6", ".", "0", ".", "0", ".", "1">>, <<"1", "0", ".", "x", ".", "0", ".", "0">>, <<"1", "0", ".", ".", "0", ".", "0">>,
     <<"-", "1", ".", "0", ".", "0", ".", "0">>, <<"1", "0", "x", ".", "0", ".", "0", ".", "0">>}

\* Prefix lengths: every one from 0 to 32 in decimal, and strings that are
\* none (missing, non-numeric, negative, above 32).
PrefixSamples ==
    {IntToString(p) : p \in 0..32} \cup {<<>>, <<"x">>, <<"-", "1">>, <<"3", "3">>, <<"4", "0">>, <<"8", "x">>}

AddressSamples == Ipv4Samples \cup BadIpv4Samples

CidrSamples ==
    AddressSamples \cup {n \o <<"/">> \o p : n \in AddressSamples, p \in PrefixSamples}

InitCidr ==
    /\ pc = "ready"
    /\ call \in {[ip |-> i, cidr |-> c] : i \in AddressSamples, c \in CidrSamples}
    /\ ret = "none"
    /\ logs = <<>>
    /\ maxResults = 1
    /\ options = NoOptions
    /\ result = <<>>

\* matchCidr(ip, cidr) of the filters module runs.
MatchCidr ==
    /\ pc = "ready"
    /\ ret' = Returns(matchCidr(call.ip, call.cidr))
    /\ pc' = "filters"
    /\ UNCHANGED <<logs, maxResults, options, result, call>>

\* matchCidr(ip, cidr) of the query engine runs.
EngineMatchCidr ==
    /\ pc = "ready"
    /\ ret' = Returns(engine_matchCidr(call.ip, call.cidr))
    /\ pc' = "engine"
    /\ UNCHANGED <<logs, maxResults, options, result, call>>

NextCidr == MatchCidr \/ EngineMatchCidr

SpecCidr == InitCidr /\ [][NextCidr]_vars

----------------------------------------------------------------------------
(* Claims about matchCidr, under SpecCidr. What a valid address, a valid   *)
(* prefix and "the top p bits" are is stated here without the code's       *)
(* parsing.                                                                *)

\* The number a string of decimal digits writes.
RECURSIVE DecimalValue(_)
DecimalValue(str) ==
    IF str = <<>> THEN 0
    ELSE 10 * DecimalValue(SubSeq(str, 1, Len(str) - 1)) + (PosIn(str[Len(str)], Digits) - 1)

IsDecimal(str) == str # <<>> /\ Len(str) <= 3 /\ \A i \in DOMAIN str : str[i] \in Range(Digits)

\* Four octets, each a decimal number in 0..255.
IsIpv4(str) ==
    LET parts == split(str, <<".">>)
    IN  /\ Len(parts) = 4
        /\ \A i \in DOMAIN parts : IsDecimal(parts[i]) /\ DecimalValue(parts[i]) <= 255

\* A prefix length of an IPv4 network: a decimal number in 0..32.
IsIpv4Prefix(str) == IsDecimal(str) /\ DecimalValue(str) <= 32

\* Bit i (1 the highest) of a valid IPv4 address.
AddressBit(str, i) ==
    LET octet == DecimalValue(split(str, <<".">>)[((i - 1) \div 8) + 1])
    IN  (octet \div Pow2(7 - ((i - 1) % 8))) % 2

TopBitsEqual(a, b, p) == \A i \in 1..p : AddressBit(a, i) = AddressBit(b, i)

CidrNetwork == split(call.cidr, <<"/">>)[1]
CidrPrefix == split(call.cidr, <<"/">>)[2]
HasSlash == includes(call.cidr, <<"/">>)

\* The CIDR string has a "/" and is malformed: its network is no valid
\* address, or its prefix length is missing or no number in 0..32.
MalformedCidr == HasSlash /\ (~IsIpv4(CidrNetwork) \/ ~IsIpv4Prefix(CidrPrefix))

\* C5: matchCidr(ip, cidr) returns false whenever the IP is not a valid
\* address or the CIDR string is malformed (an invalid network part; a prefix
\* length that is missing, non-numeric, negative or above 32). Stated for
\* both copies, on strings without ":" and for CIDR strings with a "/" (one
\* without is compared as a string).
C5_MalformedIsFalse ==
    (pc \in {"filters", "engine"} /\ HasSlash /\ (~IsIpv4(call.ip) \/ MalformedCidr))
        => ret = "false"

\* C6: for a valid IPv4 address, a valid IPv4 network n and a prefix length p
\* in 0..32, matchCidr(ip, n/p) of the filters module is true exactly when the
\* top p bits of ip and n are equal (so /32 matches the identical address
\* only and /0 every address); a CIDR string with no "/" matches by exact
\* string equality only.
C6_TopBits ==
    pc = "filters" =>
        /\ (HasSlash /\ IsIpv4(call.ip) /\ IsIpv4(CidrNetwork) /\ IsIpv4Prefix(CidrPrefix))
              => (ret = "true" <=>
                    TopBitsEqual(call.ip, CidrNetwork, DecimalValue(CidrPrefix)))
        /\ ~HasSlash => (ret = "true" <=> call.ip = call.cidr)

\* C6 witness: the filters module's matchCidr has accepted a valid address in
\* a valid network other than itself, under a prefix that cuts inside an octet.
C6_Witness ==
    /\ pc = "filters"
    /\ HasSlash
    /\ IsIpv4(call.ip) /\ IsIpv4(CidrNetwork) /\ IsIpv4Prefix(CidrPrefix)
    /\ DecimalValue(CidrPrefix) % 8 # 0
    /\ call.ip # CidrNetwork
    /\ ret = "true"

----------------------------------------------------------------------------
(* matchWildcard alone                                                     *)

MaxValueLen == 3
MaxPatternLen == 3

\* The strings of at most n characters of an alphabet.
RECURSIVE StringsUpTo(_, _)
StringsUpTo(alphabet, n) ==
    IF n = 0 THEN {<<>>}
    ELSE LET shorter == StringsUpTo(alphabet, n - 1)
         IN  shorter \cup {Append(x, c) : x \in {y \in shorter : Len(y) = n - 1},
                                          c \in alphabet}

\* Values hold letters of both cases, a regex metacharacter and a line feed;
\* patterns hold a letter, the metacharacter and "*".
ValueAlphabet == {"a", "A", ".", "\n"}
PatternAlphabet == {"a", ".", "*"}

InitWildcard ==
    /\ pc = "ready"
    /\ call \in {[value |-> v, pattern |-> p] :
                    v \in StringsUpTo(ValueAlphabet, MaxValueLen),
                    p \in StringsUpTo(PatternAlphabet, MaxPatternLen)}
    /\ ret = "none"
    /\ logs = <<>>
    /\ maxResults = 1
    /\ options = NoOptions
    /\ result = <<>>

\* matchWildcard(value, pattern) of the filters module runs.
MatchWildcard ==
    /\ pc = "ready"
    /\ ret' = matchWildcard(call.value, call.pattern)
    /\ pc' = IF ret' \in {"true", "false"} THEN "returned" ELSE "thrown"
    /\ UNCHANGED <<logs, maxResults, options, result, call>>

NextWildcard == MatchWildcard

SpecWildcard == InitWildcard /\ [][NextWildcard]_vars

----------------------------------------------------------------------------
(* Claims about matchWildcard, under SpecWildcard                          *)

\* value is pattern with each "*" replaced by some string, every other
\* character compared without regard to case.
RECURSIVE Glob(_, _)
Glob(value, pattern) ==
    IF pattern = <<>> THEN value = <<>>
    ELSE IF Head(pattern) = "*"
    THEN \E k \in 0..Len(value) : Glob(SubSeq(value, k + 1, Len(value)), Tail(pattern))
    ELSE /\ value # <<>>
         /\ LowerChar(Head(value)) = LowerChar(Head(pattern))
         /\ Glob(Tail(value), Tail(pattern))

\* C8: matchWildcard(value, pattern) is true exactly when value, compared
\* case-insensitively and over its full length, equals the pattern with each
\* "*" replaced by some (possibly empty) string and every other pattern
\* character taken literally.
C8_GlobMatch ==
    pc # "ready" => ret = Returns(Glob(call.value, call.pattern))

----------------------------------------------------------------------------
(* getNestedValue alone                                                    *)

F_a == <<"a">>
F_b == <<"b">>
F_c == <<"c">>
F_ab == <<"a", ".", "b">>

\* What a record may hold under a key: scalars, a sequence, nested mappings.
NestedValues ==
    { Null, JsNum(1), JsStr(<<"s">>), JsBool(TRUE), JsArr(<<JsStr(<<"x">>)>>),
      JsObj(F_b :> JsNum(2)), JsObj(F_b :> JsObj(F_c :> JsStr(<<"y">>))) }

\* The records: each of the keys "a" and "a.b" absent or holding a value.
NestedRecords ==
    { JsObj(<<>>) } \cup { JsObj(F_a :> v) : v \in NestedValues }
    \cup { JsObj(F_ab :> v) : v \in NestedValues }
    \cup { JsObj((F_a :> v) @@ (F_ab :> w)) : v \in NestedValues, w \in NestedValues }

FieldNames == {<<"a">>, <<"a", ".", "b">>, <<"a", ".", "b", ".", "c">>, <<"a", ".", "0">>, <<"a", ".", "l", "e", "n", "g", "t", "h">>, <<"x">>, <<"a", ".", "x">>, <<"x", ".", "b">>}

InitResolve ==
    /\ pc = "ready"
    /\ call \in {[record |-> r, field |-> f] : r \in NestedRecords, f \in FieldNames}
    /\ ret = "none"
    /\ logs = <<>>
    /\ maxResults = 1
    /\ options = NoOptions
    /\ result = <<>>

\* getNestedValue(record, field) runs.
GetNestedValue ==
    /\ pc = "ready"
    /\ ret' = getNestedValue(call.record, call.field)
    /\ pc' = "returned"
    /\ UNCHANGED <<logs, maxResults, options, result, call>>

NextResolve == GetNestedValue

SpecResolve == InitResolve /\ [][NextResolve]_vars

----------------------------------------------------------------------------
(* Claims about getNestedValue, under SpecResolve                          *)

\* Two values are the same value.
RECURSIVE SameValue(_, _)
SameValue(x, y) ==
    /\ x.t = y.t
    /\ CASE x.t \in {"undefined", "null"} -> TRUE
         [] x.t \in {"array", "object"} ->
                /\ DOMAIN x.v = DOMAIN y.v
                /\ \A k \in DOMAIN x.v : SameValue(x.v[k], y.v[k])
         [] OTHER -> x.v = y.v

\* The walk of the claim: absent when a segment is missing or when a value
\* reached before the last segment is not a mapping.
RECURSIVE Walk(_, _)
Walk(current, segments) ==
    IF segments = <<>> THEN current
    ELSE IF current.t # "object" THEN Undefined
    ELSE IF Head(segments) \notin DOMAIN current.v THEN Undefined
    ELSE Walk(current.v[Head(segments)], Tail(segments))

\* C9: getNestedValue returns the value stored under fieldName whenever
\* fieldName is a literal key of the record; otherwise it splits fieldName on
\* "." and walks nested mappings, returning absent if a segment is missing or
\* a value reached before the last segment is not a mapping (a number,
\* string, boolean or sequence).
C9_LiteralThenWalk ==
    pc = "returned" =>
        IF call.field \in DOMAIN call.record.v
        THEN SameValue(ret, call.record.v[call.field])
        ELSE SameValue(ret, Walk(call.record, split(call.field, <<".">>)))

----------------------------------------------------------------------------
(* groupBy alone                                                           *)

MaxGroupRecords == 3

\* The record lists: at most n log lines, a line possibly more than once.
RECURSIVE RecordLists(_)
RecordLists(n) ==
    IF n = 0 THEN {<<>>}
    ELSE LET shorter == RecordLists(n - 1)
         IN  shorter \cup {Append(x, LogLines[i]) : x \in {y \in shorter : Len(y) = n - 1},
                                                    i \in DOMAIN LogLines}

GroupFields == {F_proto, F_duration, F_ts, <<"s", "e", "r", "v", "i", "c", "e">>}
GroupLimits == {Undefined, JsNum(-1), JsNum(0), JsNum(1), JsNum(2)}

InitGroup ==
    /\ pc = "ready"
    /\ call \in {[records |-> r, field |-> f, limit |-> l] :
                    r \in RecordLists(MaxGroupRecords), f \in GroupFields, l \in GroupLimits}
    /\ ret = "none"
    /\ logs = <<>>
    /\ maxResults = 1
    /\ options = NoOptions
    /\ result = <<>>

\* groupBy(records, field, limit) runs.
GroupBy ==
    /\ pc = "ready"
    /\ ret' = groupBy(call.records, call.field, call.limit)
    /\ pc' = "returned"
    /\ UNCHANGED <<logs, maxResults, options, result, call>>

\* topN(records, field, n) runs, n being the call's limit.
TopN ==
    /\ pc = "ready"
    /\ ret' = topN(call.records, call.field, call.limit)
    /\ pc' = "topN"
    /\ UNCHANGED <<logs, maxResults, options, result, call>>

NextGroup == GroupBy \/ TopN

SpecGroup == InitGroup /\ [][NextGroup]_vars

----------------------------------------------------------------------------
(* Claims about groupBy, under SpecGroup                                   *)

\* The sum of the counts of the groups from group i on.
RECURSIVE SumCounts(_, _)
SumCounts(groups, i) ==
    IF i > Len(groups) THEN 0 ELSE groups[i].count + SumCounts(groups, i + 1)

\* C10: for every record list, field and group limit, groupBy returns total
\* equal to the number of input records, and the counts of the returned
\* groups sum to at most total.
C10_TotalAndCounts ==
    pc = "returned" =>
        /\ ret.total = Len(call.records)
        /\ SumCounts(ret.groups, 1) <= ret.total

\* C10 witness: groupBy has returned fewer groups than it counted, one of
\* them with more than one record, and their counts sum to less than total.
C10_Witness ==
    /\ pc = "returned"
    /\ \E i \in DOMAIN ret.groups : ret.groups[i].count > 1
    /\ SumCounts(ret.groups, 1) < ret.total
    /\ ret.total = MaxGroupRecords

\* C11: topN(records, field, n) returns the keys and counts of
\* groupBy(records, field, n).groups, in the same order.
C11_TopNIsGroupBy ==
    pc = "topN" =>
        LET groups == groupBy(call.records, call.field, call.limit).groups
        IN  /\ Len(ret) = Len(groups)
            /\ \A i \in DOMAIN ret :
                   i \in DOMAIN groups =>
                       ret[i].value = groups[i].key /\ ret[i].count = groups[i].count

----------------------------------------------------------------------------
(* sumField and avgField as a state machine: one call, drawn in Init, runs *)
(* and returns.                                                            *)

F_bytes == <<"b", "y", "t", "e", "s">>

MaxSumRecords == 3

\* What a record may hold in the summed field: nothing, finite numbers, a
\* numeric string, a boolean, null, and the numbers that are not finite
\* (JSON.parse reads 1e999 as Infinity, parseFloat reads "nan" as NaN).
SumValues ==
    {Undefined, Null, JsNum(0), JsNum(5), JsNum(-3), JsStr(<<"5">>), JsBool(TRUE),
     JsNaN, JsInfinity, JsNegInfinity}

SumRecord(v) == IF v.t = "undefined" THEN JsObj(<<>>) ELSE JsObj(F_bytes :> v)

\* The lists of at most n such records.
RECURSIVE SumLists(_)
SumLists(n) ==
    IF n = 0 THEN {<<>>}
    ELSE LET shorter == SumLists(n - 1)
         IN  shorter \cup {Append(x, SumRecord(v)) :
                              x \in {y \in shorter : Len(y) = n - 1}, v \in SumValues}

InitSum ==
    /\ pc = "ready"
    /\ call \in {[records |-> r, field |-> F_bytes] : r \in SumLists(MaxSumRecords)}
    /\ ret = "none"
    /\ logs = <<>>
    /\ maxResults = 1
    /\ options = NoOptions
    /\ result = <<>>

\* sumField(records, field) runs.
SumField ==
    /\ pc = "ready"
    /\ ret' = sumField(call.records, call.field)
    /\ pc' = "summed"
    /\ UNCHANGED <<logs, maxResults, options, result, call>>

\* avgField(records, field) runs.
AvgField ==
    /\ pc = "ready"
    /\ ret' = avgField(call.records, call.field)
    /\ pc' = "averaged"
    /\ UNCHANGED <<logs, maxResults, options, result, call>>

NextSum == SumField \/ AvgField

SpecSum == InitSum /\ [][NextSum]_vars

----------------------------------------------------------------------------
(* Claims about sumField and avgField, under SpecSum                       *)

\* The value a record holds in the call's field, when it is a finite number.
FiniteAt(i) ==
    LET value == getNestedValue(call.records[i], call.field)
    IN  IF value.t = "number" THEN <<value.v>> ELSE <<>>

\* The finite numbers the records of the call hold, from record i on.
RECURSIVE FiniteValues(_)
FiniteValues(i) ==
    IF i > Len(call.records) THEN <<>> ELSE FiniteAt(i) \o FiniteValues(i + 1)

RECURSIVE SumSeq(_)
SumSeq(s) == IF s = <<>> THEN 0 ELSE Head(s) + SumSeq(Tail(s))

\* C12: sumField and avgField pass over every record whose value is not a
\* finite number, so the sum is the sum of the finite numbers and the
\* average their mean; the result is always finite, and avgField returns 0
\* when no record contributes.
C12_FiniteOnly ==
    LET finite == FiniteValues(1)
    IN  /\ pc = "summed" => ret.t = "number" /\ ret.v = SumSeq(finite)
        /\ pc = "averaged" =>
              IF finite = <<>> THEN ret.t = "number" /\ ret.v = 0
              ELSE /\ ret.t = "quotient"
                   /\ ret.num = SumSeq(finite)
                   /\ ret.den = Len(finite)

----------------------------------------------------------------------------
(* detectBeaconing as a state machine: one call, drawn in Init, runs and   *)
(* returns.                                                                *)

S_h1 == <<"1", "0", ".", "0", ".", "0", ".", "1">>
S_h2 == <<"1", "0", ".", "0", ".", "0", ".", "2">>
S_h9 == <<"1", "0", ".", "0", ".", "0", ".", "9">>

\* A connection record; an argument that is Undefined leaves its field out.
ConnRecord(src, ts, orig, resp) ==
    LET Field(name, v) == IF v.t = "undefined" THEN <<>> ELSE name :> v
    IN  JsObj((F_resp_h :> JsStr(S_h9)) @@ (F_resp_p :> JsNum(80))
              @@ Field(F_orig_h, src) @@ Field(<<"t", "s">>, ts)
              @@ Field(F_orig_bytes, orig) @@ Field(F_resp_bytes, resp))

\* The records the calls are made of: two sources to one destination and
\* port, timestamps 0 to 3, a record without a source and one without a
\* timestamp.
ConnRecords ==
    { ConnRecord(JsStr(S_h1), JsNum(1), JsNum(10), JsNum(20)),
      ConnRecord(JsStr(S_h1), JsNum(2), JsNum(5), Undefined),
      ConnRecord(JsStr(S_h1), JsNum(3), Undefined, Undefined),
      ConnRecord(JsStr(S_h1), JsNum(0), JsNum(7), Undefined),
      ConnRecord(JsStr(S_h2), JsNum(1), JsNum(1), Undefined),
      ConnRecord(JsStr(S_h2), JsNum(3), Undefined, JsNum(3)),
      ConnRecord(Undefined, JsNum(2), Undefined, Undefined),
      ConnRecord(JsStr(S_h1), Undefined, JsNum(100), Undefined) }

MaxBeaconRecords == 4

\* The lists of at most n of these records, a record possibly more than once.
RECURSIVE ConnLists(_)
ConnLists(n) ==
    IF n = 0 THEN {<<>>}
    ELSE LET shorter == ConnLists(n - 1)
         IN  shorter \cup {Append(x, r) :
                              x \in {y \in shorter : Len(y) = n - 1}, r \in ConnRecords}

\* The pairs of minConnections and maxJitterPercent of the calls; the limit
\* 150 is above every jitter of the calls.
BeaconLimits ==
    ({Undefined, JsNum(2), JsNum(3)} \X {Undefined, JsNum(100)})
    \cup {<<JsNum(2), JsNum(150)>>}

InitBeacon ==
    /\ pc = "ready"
    /\ call \in {[records |-> r, minConnections |-> x[1], maxJitterPercent |-> x[2]] :
                    r \in ConnLists(MaxBeaconRecords), x \in BeaconLimits}
    /\ ret = "none"
    /\ logs = <<>>
    /\ maxResults = 1
    /\ options = NoOptions
    /\ result = <<>>

\* detectBeaconing(records, minConnections, maxJitterPercent) runs.
DetectBeaconing ==
    /\ pc = "ready"
    /\ ret' = detectBeaconing(call.records, call.minConnections, call.maxJitterPercent)
    /\ pc' = "detected"
    /\ UNCHANGED <<logs, maxResults, options, result, call>>

NextBeacon == DetectBeaconing

SpecBeacon == InitBeacon /\ [][NextBeacon]_vars

----------------------------------------------------------------------------
(* Claims about detectBeaconing, under SpecBeacon                          *)

\* The call's thresholds, with the defaults of the contract.
MinConnections ==
    IF call.minConnections.t = "undefined" THEN 10 ELSE call.minConnections.v
MaxJitterPercent ==
    IF call.maxJitterPercent.t = "undefined" THEN 30 ELSE call.maxJitterPercent.v

\* The triple <<source, destination, port>> of a record that carries both IPs.
HasTriple(r) == GetProp(r, F_orig_h).t = "string" /\ GetProp(r, F_resp_h).t = "string"
TripleOf(r) == <<GetProp(r, F_orig_h).v, GetProp(r, F_resp_h).v, GetProp(r, F_resp_p).v>>
Triples == {TripleOf(call.records[i]) :
               i \in {j \in DOMAIN call.records : HasTriple(call.records[j])}}

\* The positions of the records of a triple, and of those that carry a
\* timestamp.
RecordsOf(triple) ==
    {i \in DOMAIN call.records :
        HasTriple(call.records[i]) /\ TripleOf(call.records[i]) = triple}
TimedOf(triple) ==
    {i \in RecordsOf(triple) : GetProp(call.records[i], <<"t", "s">>).t = "number"}
TimeAt(i) == GetProp(call.records[i], <<"t", "s">>).v

\* The timestamps at a set of positions, in ascending order.
RECURSIVE Ascend(_)
Ascend(positions) ==
    IF positions = {} THEN <<>>
    ELSE LET first == CHOOSE i \in positions :
                          \A j \in positions : TimeAt(i) <= TimeAt(j)
         IN  <<TimeAt(first)>> \o Ascend(positions \ {first})

Gaps(ts) == [i \in 1..(Len(ts) - 1) |-> ts[i + 1] - ts[i]]

\* The mean of the gaps of ascending timestamps ts is not 0.
MeanNonZero(ts) == Len(ts) >= 2 /\ ts[Len(ts)] # ts[1]

\* jitter <= limit, the jitter of ascending timestamps being the population
\* standard deviation of their gaps over the mean gap, times 100: with k gaps
\* g of sum s, jitter^2 = 10000 * SUM (k * g - s)^2 / (k * s^2).
RECURSIVE SquaresFrom(_, _, _)
SquaresFrom(gaps, i, s) ==
    IF i > Len(gaps) THEN 0
    ELSE (Len(gaps) * gaps[i] - s) * (Len(gaps) * gaps[i] - s) + SquaresFrom(gaps, i + 1, s)
JitterWithin(ts, limit) ==
    LET gaps == Gaps(ts)
        s == ts[Len(ts)] - ts[1]
    IN  limit >= 0 /\ 10000 * SquaresFrom(gaps, 1, s) <= limit * limit * Len(gaps) * s * s

\* The candidate's triple.
CandidateTriple(c) == <<c.srcIp, c.dstIp, c.dstPort.val>>

\* The positions of a triple's records whose timestamp is not 0: the ones
\* the detector measures (C14 is about the timestamp 0).
MeasuredOf(triple) == {i \in TimedOf(triple) : TimeAt(i) # 0}

SpacedBy(ts, d) == \A i \in 1..(Len(ts) - 1) : ts[i + 1] - ts[i] = d

\* C14: when the n >= minConnections records of a triple all carry a
\* timestamp and the timestamps are spaced exactly d > 0 apart, in whatever
\* order the records come, exactly one candidate is of that triple, with
\* connectionCount n, avgInterval d and jitter 0.
C14_EvenlySpaced ==
    pc = "detected" =>
        \A triple \in Triples :
            LET ts == Ascend(TimedOf(triple))
                n == Cardinality(RecordsOf(triple))
            IN  /\ TimedOf(triple) = RecordsOf(triple)
                /\ n >= MinConnections
                /\ n >= 2
                /\ ts[2] - ts[1] > 0
                /\ SpacedBy(ts, ts[2] - ts[1])
                /\ MaxJitterPercent >= 0
                => /\ Cardinality({i \in DOMAIN ret : CandidateTriple(ret[i]) = triple}) = 1
                   /\ \A i \in DOMAIN ret :
                          CandidateTriple(ret[i]) = triple =>
                              /\ ret[i].connectionCount = n
                              /\ ret[i].avgInterval = 100 * (ts[2] - ts[1])
                              /\ ret[i].jitter = 0

----------------------------------------------------------------------------
(* detectConnectionAnomalies as a state machine: one call, drawn in Init,  *)
(* runs and returns. The calls are of two families: probes of many ports   *)
(* by two sources, and byte volumes sent by several sources.               *)

S_SF == <<"S", "F">>

\* The address of the i-th host.
HostName(i) == <<"1", "0", ".", "0", ".", "0", ".">> \o NatToString(i)

\* One connection attempt of a source on a port of a destination.
ProbeRecord(src, dst, port, state) ==
    JsObj((F_orig_h :> JsStr(HostName(src))) @@ (F_resp_h :> JsStr(HostName(dst)))
          @@ (F_resp_p :> JsNum(port)) @@ (F_conn_state :> JsStr(state)))

\* n attempts of a source on the ports from, from + 1, ...: unanswered ones
\* (S0 on odd ports, REJ on even ones, on two destinations) or, when
\* answered, established ones (SF).
Probes(src, from, n, answered) ==
    [i \in 1..n |->
        ProbeRecord(src, 8 + (i % 2), from + i - 1,
                    IF answered THEN S_SF ELSE IF i % 2 = 1 THEN S_S0 ELSE S_REJ)]

MaxAnswered == 2

\* The probing calls: the first source probes around the two thresholds,
\* makes some answered connections to further ports and may probe its first
\* ports again on another destination; the second source probes around the
\* lower threshold.
ProbeCalls ==
    {[records |-> Probes(1, 1, n1, FALSE) \o Probes(1, 1000, a, TRUE)
                  \o [i \in 1..again |-> ProbeRecord(1, 7, i, S_S0)]
                  \o Probes(2, 1, n2, FALSE)] :
        n1 \in {ScanMinPorts - 1, ScanMinPorts, ScanMinPorts + 1,
                 ScanHighPorts, ScanHighPorts + 1},
        a \in 0..MaxAnswered,
        again \in {0, 3},
        n2 \in {0, ScanMinPorts, ScanMinPorts + 1}}

\* One connection of a source with its outbound bytes; Undefined leaves the
\* field out.
VolumeRecord(src, bytes) ==
    JsObj((F_orig_h :> JsStr(HostName(src))) @@ (F_resp_h :> JsStr(HostName(9)))
          @@ (F_resp_p :> JsNum(443)) @@ (F_conn_state :> JsStr(S_SF))
          @@ (F_service :> JsStr(<<"s", "s", "l">>))
          @@ (IF bytes.t = "undefined" THEN <<>> ELSE F_orig_bytes :> bytes))

MaxOtherSources == 4

\* The byte volumes of the further sources, one connection each.
RECURSIVE OtherVolumes(_, _)
OtherVolumes(n, volumes) ==
    IF n = 0 THEN {<<>>}
    ELSE {Append(x, VolumeRecord(n + 1, b)) : x \in OtherVolumes(n - 1, volumes),
                                             b \in volumes}

\* The volume calls: the first source sends around the floor, possibly in two
\* connections, while the others send something, nothing or 0 bytes; and it
\* sends around the critical size while every other source sends something.
VolumeCalls ==
    {[records |-> <<VolumeRecord(1, b)>> \o others \o more] :
        b \in {JsNum(ExfilFloor - 1), JsNum(ExfilFloor), JsNum(2 * ExfilFloor)},
        others \in OtherVolumes(MaxOtherSources,
                                {Undefined, JsNum(0), JsNum(1000), JsNum(ExfilFloor + 1)}),
        more \in {<<>>, <<VolumeRecord(1, JsNum(1))>>}}
    \cup
    {[records |-> <<VolumeRecord(1, b)>> \o others \o more] :
        b \in {JsNum(ExfilCritical - 1), JsNum(ExfilCritical)},
        others \in OtherVolumes(MaxOtherSources, {JsNum(1000), JsNum(ExfilFloor + 1)}),
        more \in {<<>>, <<VolumeRecord(1, JsNum(1))>>}}

\* n established connections of the first source to a port, with the
\* service identified or, when service is empty, without.
PortRecords(port, n, service) ==
    [i \in 1..n |->
        JsObj((F_orig_h :> JsStr(HostName(1))) @@ (F_resp_h :> JsStr(HostName(9)))
              @@ (F_resp_p :> JsNum(port)) @@ (F_conn_state :> JsStr(S_SF))
              @@ (IF service = <<>> THEN <<>> ELSE F_service :> JsStr(service)))]

\* The connections to the ports 4001, ..., 4000 + n, each port having one,
\* two or three connections more than the reporting threshold.
RECURSIVE BusyPorts(_)
BusyPorts(n) ==
    IF n = 0 THEN <<>>
    ELSE BusyPorts(n - 1) \o PortRecords(4000 + n, UnusualMinCount + 1 + (n % 3), <<>>)

\* The port calls: up to one more busy port than is reported, a port at the
\* threshold, a common port and a port with its service identified above the
\* threshold, and a busy port at an end of the range of ports.
PortCalls ==
    {[records |-> PortRecords(5000, quiet, <<>>) \o PortRecords(edge, edged, <<>>)
                  \o PortRecords(443, common, <<>>)
                  \o PortRecords(6000, served, <<"h", "t", "t", "p">>)
                  \o BusyPorts(busy)] :
        quiet \in {0, UnusualMinCount},
        edge \in {0, 1, 65535, 65536},
        edged \in {0, UnusualMinCount + 4},
        common \in {0, UnusualMinCount + 5},
        served \in {0, UnusualMinCount + 5},
        busy \in {0, 1, UnusualMaxReported - 1, UnusualMaxReported, UnusualMaxReported + 1}}

InitAnomaly ==
    /\ pc = "ready"
    /\ call \in ProbeCalls \cup VolumeCalls \cup PortCalls
    /\ ret = "none"
    /\ logs = <<>>
    /\ maxResults = 1
    /\ options = NoOptions
    /\ result = <<>>

\* detectConnectionAnomalies(records) runs.
DetectConnectionAnomalies ==
    /\ pc = "ready"
    /\ ret' = detectConnectionAnomalies(call.records)
    /\ pc' = "analysed"
    /\ UNCHANGED <<logs, maxResults, options, result, call>>

NextAnomaly == DetectConnectionAnomalies

SpecAnomaly == InitAnomaly /\ [][NextAnomaly]_vars

----------------------------------------------------------------------------
(* Claims about detectConnectionAnomalies, under SpecAnomaly               *)

\* The sources of the call's records.
Sources == {GetProp(call.records[i], F_orig_h).v : i \in DOMAIN call.records}

\* The distinct destination ports of a source among its records in state
\* S0 or REJ.
ProbedPorts(src) ==
    {GetProp(call.records[i], F_resp_p).v :
        i \in {j \in DOMAIN call.records :
                  /\ GetProp(call.records[j], F_orig_h).v = src
                  /\ GetProp(call.records[j], F_conn_state).v \in {S_S0, S_REJ}}}

\* The anomalies of a type reported for a source.
Reported(type, src) ==
    {i \in DOMAIN ret : ret[i].type = type /\ ret[i].sourceIp = src}

\* C15: a source has exactly one port_scan anomaly when it has more than 50
\* distinct destination ports among its S0 and REJ records, and none
\* otherwise; portsScanned is that number of ports, severity is high above
\* 200 ports and medium otherwise, and samplePorts holds at most 20 ports.
C15_PortScan ==
    pc = "analysed" =>
        /\ \A src \in Sources :
              LET ports == Cardinality(ProbedPorts(src))
              IN  /\ Cardinality(Reported("port_scan", src)) = (IF ports > 50 THEN 1 ELSE 0)
                  /\ \A i \in Reported("port_scan", src) :
                        /\ ret[i].portsScanned = ports
                        /\ ret[i].severity = (IF ports > 200 THEN "high" ELSE "medium")
                        /\ Len(ret[i].samplePorts) <= 20
        /\ \A i \in DOMAIN ret :
              ret[i].type = "port_scan" => ret[i].sourceIp \in Sources

\* C15 witness: one source with 201 probed ports is reported high, and
\* another with exactly 50 is not reported; the first also made answered
\* connections to further ports.
C15_Witness ==
    /\ pc = "analysed"
    /\ \E src \in Sources :
          /\ Cardinality(ProbedPorts(src)) = 201
          /\ \E i \in Reported("port_scan", src) : ret[i].severity = "high"
          /\ \E i \in DOMAIN call.records :
                /\ GetProp(call.records[i], F_orig_h).v = src
                /\ GetProp(call.records[i], F_conn_state).v = S_SF
    /\ \E src \in Sources :
          Cardinality(ProbedPorts(src)) = 50 /\ Reported("port_scan", src) = {}

\* The outbound bytes a source sent over all its records.
RECURSIVE SumBytesAt(_)
SumBytesAt(positions) ==
    IF positions = {} THEN 0
    ELSE LET i == CHOOSE j \in positions : TRUE
         IN  GetProp(call.records[i], F_orig_bytes).v + SumBytesAt(positions \ {i})
BytesFrom(src, from) ==
    SumBytesAt({i \in DOMAIN call.records :
                   /\ i >= from
                   /\ GetProp(call.records[i], F_orig_h).v = src
                   /\ GetProp(call.records[i], F_orig_bytes).t = "number"})

\* The sources that have outbound bytes.
Senders == {src \in Sources : BytesFrom(src, 1) > 0}

\* The totals of a set of sources in ascending order.
RECURSIVE AscendingTotals(_)
AscendingTotals(srcs) ==
    IF srcs = {} THEN <<>>
    ELSE LET least == CHOOSE s \in srcs :
                          \A o \in srcs : BytesFrom(s, 1) <= BytesFrom(o, 1)
         IN  <<BytesFrom(least, 1)>> \o AscendingTotals(srcs \ {least})

\* Q3 + 3 * IQR over the totals of the senders, Q1 and Q3 being the totals at
\* the indices floor(n * 0.25) and floor(n * 0.75), counted from 0.
StatisticalThreshold ==
    LET totals == AscendingTotals(Senders)
        n == Len(totals)
        q1 == totals[(n \div 4) + 1]
        q3 == totals[((3 * n) \div 4) + 1]
    IN  q3 + 3 * (q3 - q1)

\* C16: a data_exfiltration anomaly is reported only for a source whose
\* summed outbound bytes are above Q3 + 3 * IQR and above 104857600; none is
\* reported when fewer than 3 sources have outbound bytes; the severity is
\* critical when the sum is above 1073741824 and high otherwise.
C16_Exfiltration ==
    pc = "analysed" =>
        /\ \A i \in DOMAIN ret :
              ret[i].type = "data_exfiltration" =>
                  LET total == BytesFrom(ret[i].sourceIp, 1)
                  IN  /\ ret[i].sourceIp \in Sources
                      /\ Cardinality(Senders) >= 3
                      /\ total > StatisticalThreshold
                      /\ total > 104857600
                      /\ ret[i].severity =
                             (IF total > 1073741824 THEN "critical" ELSE "high")
        /\ Cardinality(Senders) < 3 =>
              \A i \in DOMAIN ret : ret[i].type # "data_exfiltration"

\* C16 witness: a source is reported critical for a sum just above 1 GiB
\* sent in two connections, while another source above the floor is not
\* reported.
C16_Witness ==
    /\ pc = "analysed"
    /\ \E i \in DOMAIN ret :
          /\ ret[i].type = "data_exfiltration"
          /\ ret[i].severity = "critical"
          /\ ret[i].bytesSent = 1073741825
    /\ \E src \in Senders :
          /\ BytesFrom(src, 1) > 104857600
          /\ \A i \in DOMAIN ret : ret[i].sourceIp # src

----------------------------------------------------------------------------
(* Two executeQuery calls in flight at once, as Promise.all issues them in *)
(* zeek_investigate_host. Here pc, options, call and result hold one value *)
(* per call, and ret holds the arrays the calls have created: an array is  *)
(* known by its reference, its position in ret. A call runs from one await *)
(* to the next without interruption.                                       *)

Callers == {1, 2}

\* The options the parallel calls are made with: no filter and the default
\* sort, no filter and a sort by duration, one filter and the default sort.
ParallelOptions ==
    { [filters |-> JsArr(fs[1]), timeFrom |-> Undefined, timeTo |-> Undefined,
       sortBy |-> fs[2], sortOrder |-> Undefined, limit |-> Undefined] :
        fs \in {<<<<>>, Undefined>>, <<<<>>, JsStr(F_duration)>>,
                 <<<<FilterProto>>, Undefined>>} }

\* A faulty variant of NewArray: every new array is the first array again.
NewArray_Reused(arrays) == 1

\* The reference of an array created now: [] and filter() make an array no
\* other reference leads to.
NewArray(arrays) == Len(arrays) + 1

\* The arrays once the array of reference ref holds arr.
Store(arrays, ref, arr) ==
    IF ref > Len(arrays) THEN Append(arrays, arr) ELSE [arrays EXCEPT ![ref] = arr]

InitParallel ==
    /\ pc = [c \in Callers |-> "idle"]
    /\ logs \in LogFiles
    /\ maxResults \in {1, MaxCeiling}
    /\ options = [c \in Callers |-> NoOptions]
    /\ result = [c \in Callers |-> <<>>]
    /\ call = [c \in Callers |-> 0]
    /\ ret = <<>>

\* executeQuery is called and calls queryLog, which creates allRecords and
\* awaits readLogFile.
ParallelInvoke(c) ==
    /\ pc[c] = "idle"
    /\ \E o \in ParallelOptions : options' = [options EXCEPT ![c] = o]
    /\ call' = [call EXCEPT ![c] = NewArray(ret)]
    /\ ret' = Store(ret, NewArray(ret), <<>>)
    /\ pc' = [pc EXCEPT ![c] = "reading"]
    /\ UNCHANGED <<logs, maxResults, result>>

\* readLogFile resolves: queryLog pushes the records onto allRecords and
\* returns allRecords.filter(...), a new array.
ParallelRead(c) ==
    /\ pc[c] = "reading"
    /\ LET Filtered(read) ==
               /\ call' = [call EXCEPT ![c] = NewArray(read)]
               /\ ret' = Store(read, NewArray(read),
                               queryLog(read[call[c]], options[c].timeFrom,
                                        options[c].timeTo))
       IN  Filtered(Store(ret, call[c], ret[call[c]] \o logs))
    /\ pc' = [pc EXCEPT ![c] = "loaded"]
    /\ UNCHANGED <<logs, maxResults, options, result>>

\* The await of queryLog resumes: executeQuery filters into a new array when
\* there are filters, sorts the array in place and returns a slice of it.
ParallelResume(c) ==
    /\ pc[c] = "loaded"
    /\ LET Sorted(ref, sorted) ==
               /\ ret' = Store(ret, ref, sorted)
               /\ result' =
                     [result EXCEPT ![c] =
                         SliceTo(sorted,
                                 Min(Coalesce(options[c].limit, JsNum(DefaultLimit)).v,
                                     maxResults))]
           Sort(ref, filtered) ==
               Sorted(ref, ArraySort(filtered,
                                     QueryOrder(Coalesce(options[c].sortBy,
                                                         JsStr(<<"t", "s">>)).v,
                                                Coalesce(options[c].sortOrder,
                                                         JsStr(<<"d", "e", "s", "c">>)).v)))
       IN  IF options[c].filters.t # "undefined" /\ Len(options[c].filters.v) > 0
           THEN Sort(NewArray(ret),
                     FilterRecords(ret[call[c]], options[c].filters.v, 1, <<>>).recs)
           ELSE Sort(call[c], ret[call[c]])
    /\ pc' = [pc EXCEPT ![c] = "resolved"]
    /\ UNCHANGED <<logs, maxResults, options, call>>

\* The caller takes the result of the call.
ParallelReturn(c) ==
    /\ pc[c] = "resolved"
    /\ pc' = [pc EXCEPT ![c] = "returned"]
    /\ UNCHANGED <<logs, maxResults, options, result, call, ret>>

NextParallel ==
    \E c \in Callers :
        ParallelInvoke(c) \/ ParallelRead(c) \/ ParallelResume(c) \/ ParallelReturn(c)

SpecParallel == InitParallel /\ [][NextParallel]_vars

----------------------------------------------------------------------------
(* Claims about concurrent calls, under SpecParallel                       *)

\* What call c returns when it runs alone.
Alone(c) ==
    executeQuery(queryLog(logs, options[c].timeFrom, options[c].timeTo),
                 options[c], maxResults).recs

\* C17: whatever the interleaving of two executeQuery calls, the array a
\* call has got from queryLog and not yet sorted is as queryLog made it, so
\* the sort of the other call has not touched it, and a call that has
\* resolved has the result it has when run alone.
C17_CallsAreIndependent ==
    \A c \in Callers :
        /\ pc[c] = "loaded" =>
              ret[call[c]] = queryLog(logs, options[c].timeFrom, options[c].timeTo)
        /\ pc[c] \in {"resolved", "returned"} => result[c] = Alone(c)

\* C17 witness: one call has sorted its array in place, changing the order
\* of the records, while the other call still waits with the records it got
\* from queryLog, and the two calls have different sort fields.
C17_Witness ==
    \E c \in Callers, d \in Callers :
        /\ pc[c] = "resolved"
        /\ pc[d] = "loaded"
        /\ Len(options[c].filters.v) = 0
        /\ ret[call[c]] # ret[call[d]]
        /\ options[c].sortBy.t # options[d].sortBy.t

----------------------------------------------------------------------------
(* Further claims about the filter evaluator, under SpecFilter             *)

\* The value the filter of the call is applied to.
Resolved == getNestedValue(call.record, call.filter.field)

\* C18: neq is the negation of eq: applyFilter with op neq is true exactly
\* when applyFilter with op eq, on the same record, field and value, is
\* false; and eq is true exactly when the resolved value equals the filter
\* value in structure or the string forms of the two are equal.
C18_NeqNegatesEq ==
    /\ (pc = "returned" /\ call.filter.op = "neq") =>
          /\ ret \in {"true", "false"}
          /\ ret = "true" <=>
                applyFilter(call.record, [call.filter EXCEPT !.op = "eq"]) = "false"
    /\ (pc = "returned" /\ call.filter.op = "eq") =>
          (ret = "true" <=>
              \/ SameValue(Resolved, call.filter.value)
              \/ String(Resolved) = String(call.filter.value))

\* C18 witness: neq has returned false for a number and a string that are
\* not the same value but have the same string form.
C18_Witness ==
    /\ pc = "returned"
    /\ call.filter.op = "neq"
    /\ Resolved.t = "number"
    /\ call.filter.value.t = "string"
    /\ ret = "false"

----------------------------------------------------------------------------
(* The entropy analyzer called on its own: SpecEntropy                     *)

MaxEntropyLen == 4

\* The code units of the strings measured.
EntropyUnits == {"a", "b"} \cup HighSurrogates \cup LowSurrogates

EntropyInputs == UNION {[1..n -> EntropyUnits] : n \in 0..MaxEntropyLen}

InitEntropy ==
    /\ pc = "ready"
    /\ call \in EntropyInputs
    /\ ret = EntropyZero
    /\ logs = <<>>
    /\ maxResults = 1
    /\ options = <<>>
    /\ result = <<>>

\* shannonEntropy(input) runs.
ShannonEntropy ==
    /\ pc = "ready"
    /\ ret' = shannonEntropy(call)
    /\ pc' = "measured"
    /\ UNCHANGED <<logs, maxResults, options, result, call>>

NextEntropy == ShannonEntropy

SpecEntropy == InitEntropy /\ [][NextEntropy]_vars

\* The entropy e is the whole number k.
EntropyIs(e, k) == e.num = Power(2, k * e.len) * e.den

\* The characters strings are made of: two of one code unit and two written
\* as a surrogate pair.
Characters ==
    {<<"a">>, <<"b">>} \cup {<<h, l>> : h \in HighSurrogates, l \in LowSurrogates}

\* The number of places of the string s where the character ch stands.
Occurrences(s, ch) ==
    Cardinality({i \in 1..(Len(s) - Len(ch) + 1) :
                    SubSeq(s, i, i + Len(ch) - 1) = ch})

\* s is the character ch repeated, at least once.
Repeated(s, ch) ==
    /\ Len(s) >= 1
    /\ Occurrences(s, ch) * Len(ch) = Len(s)

\* s is made of the characters c1 and c2 alone, as many of one as of the
\* other.
EquallyOften(s, c1, c2) ==
    /\ c1 # c2
    /\ Occurrences(s, c1) >= 1
    /\ Occurrences(s, c1) = Occurrences(s, c2)
    /\ Occurrences(s, c1) * (Len(c1) + Len(c2)) = Len(s)

\* C19: shannonEntropy returns 0 for the empty string and for every string
\* made of one character repeated, and 1 for a string of two distinct
\* characters that occur equally often.
C19_EntropyValues ==
    pc = "measured" =>
        /\ call = <<>> => EntropyIs(ret, 0)
        /\ \A ch \in Characters : Repeated(call, ch) => EntropyIs(ret, 0)
        /\ \A c1 \in Characters : \A c2 \in Characters :
              EquallyOften(call, c1, c2) => EntropyIs(ret, 1)

\* The same values for strings of characters of one code unit.
EntropyOfOneUnitCharacters ==
    pc = "measured" =>
        /\ call = <<>> => EntropyIs(ret, 0)
        /\ \A ch \in {<<"a">>, <<"b">>} : Repeated(call, ch) => EntropyIs(ret, 0)
        /\ EquallyOften(call, <<"a">>, <<"b">>) => EntropyIs(ret, 1)

----------------------------------------------------------------------------
(* A further claim about groupBy, under SpecGroup                          *)

\* The places of the records of the call whose key is the given one.
PlacesOf(key) ==
    {i \in DOMAIN call.records : GroupKey(call.records[i], call.field) = key}

\* The place where a key is first seen.
FirstSeen(key) == CHOOSE i \in PlacesOf(key) : \A j \in PlacesOf(key) : i <= j

\* The keys of the records of the call.
KeysOf == {GroupKey(call.records[i], call.field) : i \in DOMAIN call.records}

\* The size asked for: the limit of the call, or the default when absent.
AskedSize == IF call.limit.t = "undefined" THEN GroupDefaultLimit ELSE call.limit.v

\* C20: groupBy returns at most limit groups (limit being a size, absent or
\* not negative), each with the number of records of its key, ordered by
\* count non-increasing, groups of equal count in the order their keys were
\* first seen; no group left out has a larger count than a returned one.
C20_TopGroups ==
    pc = "returned" =>
        LET groups == ret.groups
            returned == {groups[i].key : i \in DOMAIN groups}
        IN  /\ AskedSize >= 0 => Len(groups) <= AskedSize
            /\ AskedSize >= 0 =>
                  Len(groups) = Min(AskedSize, Cardinality(KeysOf))
            /\ \A i \in DOMAIN groups :
                  /\ groups[i].key \in KeysOf
                  /\ groups[i].count = Cardinality(PlacesOf(groups[i].key))
            /\ \A i \in DOMAIN groups : \A j \in DOMAIN groups :
                  i < j =>
                    /\ groups[i].count >= groups[j].count
                    /\ groups[i].count = groups[j].count =>
                          FirstSeen(groups[i].key) < FirstSeen(groups[j].key)
            /\ \A key \in KeysOf \ returned : \A i \in DOMAIN groups :
                  Cardinality(PlacesOf(key)) <= groups[i].count

\* C20 witness: of two keys a limit of 1 leaves out the one seen first,
\* the key seen second having more records.
C20_Witness ==
    /\ pc = "returned"
    /\ call.limit.t = "number"
    /\ call.limit.v = 1
    /\ Cardinality(KeysOf) = 2
    /\ Len(ret.groups) = 1
    /\ FirstSeen(ret.groups[1].key) > 1
    /\ ret.groups[1].count = 2

----------------------------------------------------------------------------
(* Further claims about detectBeaconing, under SpecBeacon                  *)

\* C21: the connectionCount of every candidate is the number of records of
\* its triple that carry both IPs and a timestamp; a record lacking one of
\* the three counts for no candidate and every record carrying all three
\* counts for its triple.
C21_CountsTimedRecords ==
    pc = "detected" =>
        \A i \in DOMAIN ret :
            ret[i].connectionCount = Cardinality(TimedOf(CandidateTriple(ret[i])))

\* The same count over the records whose timestamp is not 0.
CountsMeasuredRecords ==
    pc = "detected" =>
        \A i \in DOMAIN ret :
            ret[i].connectionCount = Cardinality(MeasuredOf(CandidateTriple(ret[i])))

\* The bytes a record carries in a field, none when the field holds no number.
BytesIn(i, field) ==
    IF GetProp(call.records[i], field).t = "number"
    THEN GetProp(call.records[i], field).v ELSE 0

\* The total bytes, orig_bytes + resp_bytes, of the records at the positions.
RECURSIVE TotalBytesAt(_)
TotalBytesAt(positions) ==
    IF positions = {} THEN 0
    ELSE LET i == CHOOSE j \in positions : TRUE
         IN  BytesIn(i, F_orig_bytes) + BytesIn(i, F_resp_bytes)
             + TotalBytesAt(positions \ {i})

\* total / n rounded to an integer, halves upwards; total is not negative.
RoundedMean(total, n) == (2 * total + n) \div (2 * n)

\* C22: the avgBytes of every candidate is the average per record, rounded to
\* an integer, of orig_bytes + resp_bytes over all the records of the input
\* whose source IP, destination IP and destination port are the candidate's.
C22_AvgBytesPerRecord ==
    pc = "detected" =>
        \A i \in DOMAIN ret :
            LET matching == RecordsOf(CandidateTriple(ret[i]))
            IN  ret[i].avgBytes =
                    RoundedMean(TotalBytesAt(matching), Cardinality(matching))

\* The same average when every record of the candidate's triple carries
\* orig_bytes.
AvgBytesWhenOrigPresent ==
    pc = "detected" =>
        \A i \in DOMAIN ret :
            LET matching == RecordsOf(CandidateTriple(ret[i]))
            IN  (\A j \in matching :
                     GetProp(call.records[j], F_orig_bytes).t = "number")
                => ret[i].avgBytes =
                       RoundedMean(TotalBytesAt(matching), Cardinality(matching))

\* The whole part of num * 10^digits / den and whether the division is
\* exact, by long division from the quotient q and remainder r of num / den.
RECURSIVE LongDivision(_, _, _, _)
LongDivision(q, r, den, digits) ==
    IF digits = 0 THEN [whole |-> q, exact |-> r = 0]
    ELSE LongDivision(10 * q + (10 * r) \div den, (10 * r) % den, den, digits - 1)

\* The score of a candidate, in hundredths, is 100 times
\* 0.7 * max(0, 100 - jitter) + 0.3 * min(100, count / 2) rounded to a whole
\* number. With k gaps of sum s and q = SUM (k * g - s)^2 the jitter is
\* 100 * sqrt(q / k) / s, so (140 * jitter)^2 = 196 * 10^6 * q / (k * s^2),
\* and the regular part r of the score is within 1/2 of 7000 - 70 * jitter
\* exactly when (14000 - 2r - 1)^2 <= (140 * jitter)^2 <= (14000 - 2r + 1)^2.
ScoreIsFormula(score, count, ts) ==
    LET gaps == Gaps(ts)
        k == Len(gaps)
        s == ts[Len(ts)] - ts[1]
        q == SquaresFrom(gaps, 1, s)
        den == k * s * s
        volume == IF count >= 200 THEN 3000 ELSE 15 * count
        regular == score - volume
        a == 14000 - 2 * regular
        x == LongDivision((196 * q) \div den, (196 * q) % den, den, 6)
    IN  IF q >= den THEN regular = 0
        ELSE /\ regular >= 0
             /\ regular <= 7000
             /\ a >= 1 => (a - 1) * (a - 1) <= x.whole
             /\ \/ x.whole < (a + 1) * (a + 1)
                \/ x.whole = (a + 1) * (a + 1) /\ x.exact

----------------------------------------------------------------------------
(* Further claims about detectConnectionAnomalies, under SpecAnomaly       *)

\* The records counted for a port: those to that port, the port being
\* between 1 and 65535 and outside the common ports, with no service
\* identified.
CountedFor(port) ==
    {i \in DOMAIN call.records :
        /\ GetProp(call.records[i], F_resp_p).t = "number"
        /\ GetProp(call.records[i], F_resp_p).v = port
        /\ port \in 1..65535
        /\ port \notin CommonPorts
        /\ GetProp(call.records[i], F_service).t = "undefined"}

\* The ports counted more than 20 times.
FlaggedPorts ==
    {port \in {GetProp(call.records[i], F_resp_p).v : i \in DOMAIN call.records} :
        Cardinality(CountedFor(port)) > 20}

\* The positions of the unusual_port anomalies of the result.
UnusualAt == {i \in DOMAIN ret : ret[i].type = "unusual_port"}

\* C24: an unusual_port anomaly is reported only for a port from 1 to 65535
\* outside the common ports that occurs more than 20 times among the records
\* with no service identified; at most 10 are reported, for the ports with
\* the highest counts, in non-increasing order of count, each of severity
\* low and with connectionCount the number of records counted for the port.
C24_UnusualPorts ==
    pc = "analysed" =>
        /\ \A i \in UnusualAt :
              /\ ret[i].port.t = "number"
              /\ ret[i].port.v \in FlaggedPorts
              /\ ret[i].severity = "low"
              /\ ret[i].connectionCount = Cardinality(CountedFor(ret[i].port.v))
        /\ Cardinality(UnusualAt) = Min(10, Cardinality(FlaggedPorts))
        /\ \A i \in UnusualAt : \A j \in UnusualAt :
              i < j => /\ ret[i].connectionCount >= ret[j].connectionCount
                       /\ ret[i].port.v # ret[j].port.v
        /\ \A port \in FlaggedPorts :
              (\A i \in UnusualAt : ret[i].port.v # port) =>
                  \A i \in UnusualAt :
                      Cardinality(CountedFor(port)) <= ret[i].connectionCount

\* C24 witness: ten ports are reported while eleven are counted more than
\* 20 times, and the input also has a common port, a port with its service
\* identified and the port 65536 above the threshold and a port exactly at it.
C24_Witness ==
    /\ pc = "analysed"
    /\ Cardinality(UnusualAt) = 10
    /\ Cardinality(FlaggedPorts) = 11
    /\ \E i \in UnusualAt : ret[i].port.v = 65535
    /\ \E i \in DOMAIN call.records : GetProp(call.records[i], F_resp_p).v = 443
    /\ \E i \in DOMAIN call.records : GetProp(call.records[i], F_resp_p).v = 6000
    /\ \E i \in DOMAIN call.records : GetProp(call.records[i], F_resp_p).v = 5000

----------------------------------------------------------------------------
(* matchCidr of the filters module on IPv6 input: SpecCidr6                *)

\* Well-formed IPv6 addresses: elided and in full, in lower and upper case,
\* some the same address written differently, others differing in one bit.
Ipv6Samples ==
    {<<":", ":">>,
     <<":", ":", "1">>,
     <<"0", ":", "0", ":", "0", ":", "0", ":", "0", ":", "0", ":", "0", ":", "1">>,
     <<"2", "0", "0", "1", ":", "d", "b", "8", ":", ":", "1">>,
     <<"2", "0", "0", "1", ":", "D", "B", "8", ":", "0", ":", "0", ":", "0", ":", "0", ":", "0", ":", "1">>,
     <<"2", "0", "0", "1", ":", "d", "b", "8", ":", ":">>,
     <<"2", "0", "0", "1", ":", "d", "b", "9", ":", ":", "1">>,
     <<"2", "0", "0", "1", ":", "d", "b", "8", ":", "8", "0", "0", "0", ":", ":", "1">>,
     <<"f", "f", "f", "f", ":", "f", "f", "f", "f", ":", "f", "f", "f", "f", ":", "f", "f", "f", "f", ":", "f", "f", "f", "f", ":", "f", "f", "f", "f", ":", "f", "f", "f", "f", ":", "f", "f", "f", "f">>,
     <<"f", "e", "8", "0", ":", ":", "a", ":", "0", "0", "0", "1">>}

\* Strings that are no IPv6 address: two elisions, a group of five digits,
\* a dotted tail, too few and too many groups, groups that are no
\* hexadecimal number, the empty string and an IPv4 address.
BadIpv6Samples ==
    {<<"1", ":", ":", "2", ":", ":", "3">>,
     <<"1", "2", "3", "4", "5", ":", ":">>,
     <<":", ":", "f", "f", "f", "f", ":", "1", ".", "2", ".", "3", ".", "4">>,
     <<"1", ":", "2", ":", "3">>,
     <<"1", ":", "2", ":", "3", ":", "4", ":", "5", ":", "6", ":", "7", ":", "8", ":", "9">>,
     <<"1", ":", "2", ":", "3", ":", "4", ":", "5", ":", "6", ":", "7", ":", "8", ":", ":", "9">>,
     <<"g", ":", ":", "1">>,
     <<"1", "x", ":", ":">>,
     <<>>,
     <<"1", "0", ".", "0", ".", "0", ".", "1">>}

\* The calls: every prefix length from 0 to 128 for well-formed addresses
\* and networks, three of them when one of the two is malformed, and CIDR
\* strings without a "/".
Cidr6Calls ==
    {[ip |-> i, cidr |-> n \o <<"/">> \o IntToString(p)] :
        i \in Ipv6Samples, n \in Ipv6Samples, p \in 0..128}
    \cup
    {[ip |-> x[1], cidr |-> x[2] \o <<"/">> \o IntToString(p)] :
        x \in ((Ipv6Samples \cup BadIpv6Samples) \X BadIpv6Samples)
               \cup (BadIpv6Samples \X Ipv6Samples),
        p \in {0, 64, 128}}
    \cup
    {[ip |-> i, cidr |-> n] :
        i \in Ipv6Samples \cup BadIpv6Samples, n \in Ipv6Samples \cup BadIpv6Samples}

InitCidr6 ==
    /\ pc = "ready"
    /\ call \in Cidr6Calls
    /\ ret = "none"
    /\ logs = <<>>
    /\ maxResults = 1
    /\ options = NoOptions
    /\ result = <<>>

\* matchCidr(ip, cidr) of the filters module runs on the IPv6 call.
MatchCidr6 ==
    /\ pc = "ready"
    /\ ret' = Returns(matchCidr(call.ip, call.cidr))
    /\ pc' = "matched"
    /\ UNCHANGED <<logs, maxResults, options, result, call>>

NextCidr6 == MatchCidr6

SpecCidr6 == InitCidr6 /\ [][NextCidr6]_vars

\* The places of a string where an elision "::" starts.
Elisions(str) == {i \in 1..(Len(str) - 1) : str[i] = ":" /\ str[i + 1] = ":"}

\* A group of an IPv6 address: one to four hexadecimal digits.
IsGroup(g) == Len(g) \in 1..4 /\ \A i \in DOMAIN g : DigitIn(g[i], 16) >= 0

\* The groups written on one side of an elision.
SideGroups(side) == IF side = <<>> THEN <<>> ELSE split(side, <<":">>)

\* The groups a string writes, those left and those right of its elision
\* when it has one.
WrittenGroups(str) ==
    IF Elisions(str) = {} THEN [left |-> SideGroups(str), right |-> <<>>]
    ELSE LET i == CHOOSE j \in Elisions(str) : TRUE
         IN  [left |-> SideGroups(SubSeq(str, 1, i - 1)),
              right |-> SideGroups(SubSeq(str, i + 2, Len(str)))]

\* A well-formed IPv6 address: at most one elision, every group one to four
\* hexadecimal digits, eight groups once the elision stands for the missing
\* ones.
IsIpv6(str) ==
    LET w == WrittenGroups(str)
    IN  /\ Cardinality(Elisions(str)) <= 1
        /\ \A i \in DOMAIN w.left : IsGroup(w.left[i])
        /\ \A i \in DOMAIN w.right : IsGroup(w.right[i])
        /\ IF Elisions(str) = {} THEN Len(w.left) = 8
           ELSE Len(w.left) + Len(w.right) <= 7

\* The number a group of hexadecimal digits writes.
RECURSIVE HexValue(_)
HexValue(g) ==
    IF g = <<>> THEN 0
    ELSE 16 * HexValue(SubSeq(g, 1, Len(g) - 1)) + DigitIn(g[Len(g)], 16)

\* The eight groups of a well-formed IPv6 address, as numbers.
GroupValues(str) ==
    LET w == WrittenGroups(str)
    IN  [i \in 1..8 |->
            IF i <= Len(w.left) THEN HexValue(w.left[i])
            ELSE IF i > 8 - Len(w.right) THEN HexValue(w.right[i - (8 - Len(w.right))])
            ELSE 0]

\* The first p bits of two well-formed IPv6 addresses are equal.
TopBitsEqual6(a, b, p) ==
    LET ga == GroupValues(a)
        gb == GroupValues(b)
    IN  \A k \in 1..p :
            (ga[((k - 1) \div 16) + 1] \div Pow2(15 - ((k - 1) % 16))) % 2
            = (gb[((k - 1) \div 16) + 1] \div Pow2(15 - ((k - 1) % 16))) % 2

\* C25: for a well-formed IPv6 address, a well-formed IPv6 network and a
\* prefix length p from 0 to 128, matchCidr(ip, n/p) is true exactly when the
\* first p bits of the two addresses are equal, whatever their textual form;
\* /0 matches every address and /128 the identical address only.
C25_TopBits6 ==
    (pc = "matched" /\ HasSlash /\ IsIpv6(call.ip) /\ IsIpv6(CidrNetwork)
     /\ IsDecimal(CidrPrefix) /\ DecimalValue(CidrPrefix) <= 128)
    => /\ ret = "true" <=> TopBitsEqual6(call.ip, CidrNetwork, DecimalValue(CidrPrefix))
       /\ DecimalValue(CidrPrefix) = 0 => ret = "true"
       /\ DecimalValue(CidrPrefix) = 128 =>
             (ret = "true" <=> GroupValues(call.ip) = GroupValues(CidrNetwork))

\* C25 witness: an address is matched in a network written differently and
\* not the same address, under a prefix that cuts inside a byte.
C25_Witness ==
    /\ pc = "matched"
    /\ HasSlash
    /\ IsIpv6(call.ip) /\ IsIpv6(CidrNetwork)
    /\ IsDecimal(CidrPrefix)
    /\ DecimalValue(CidrPrefix) \in 1..127
    /\ DecimalValue(CidrPrefix) % 8 # 0
    /\ GroupValues(call.ip) # GroupValues(CidrNetwork)
    /\ ~TopBitsEqual6(call.ip, CidrNetwork, DecimalValue(CidrPrefix) + 1)
    /\ ret = "true"

\* C26: matchCidr returns false whenever the IP or the network is not a
\* well-formed IPv6 address (more than one elision, not eight groups, a group
\* that is not one to four hexadecimal digits), one of the two being written
\* with ":", which includes an IPv4 address against an IPv6 network and the
\* reverse.
C26_MalformedIpv6IsFalse ==
    (pc = "matched" /\ HasSlash
     /\ (includes(call.ip, <<":">>) \/ includes(CidrNetwork, <<":">>))
     /\ (~IsIpv6(call.ip) \/ ~IsIpv6(CidrNetwork)))
    => ret = "false"

\* An IPv4 address against an IPv6 network, and the reverse, is false.
Ipv4AgainstIpv6IsFalse ==
    (pc = "matched" /\ HasSlash
     /\ \/ IsIpv4(call.ip) /\ IsIpv6(CidrNetwork)
        \/ IsIpv6(call.ip) /\ IsIpv4(CidrNetwork))
    => ret = "false"

----------------------------------------------------------------------------
(* detectEncoding called on its own: SpecEncoding                          *)

MaxEncodedLen == 12

\* Characters of the strings: hexadecimal digits, characters of the base64
\* alphabet that are none, the padding and a character of neither.
EncodingChars == {"a", "F", "0", "g", "Z", "+", "/", "=", "-"}

\* The strings: a character repeated, short or around ten times, possibly
\* with another character at its start, middle or end, followed by up to
\* three "=".
EncodingInputs ==
    {[k \in 1..n |-> IF k = at THEN c1 ELSE c0] \o [k \in 1..pad |-> "="] :
        n \in {0, 1} \cup (MaxEncodedLen - 4)..MaxEncodedLen,
        c0 \in EncodingChars, c1 \in EncodingChars,
        at \in {0, 1, 5, MaxEncodedLen - 4, MaxEncodedLen},
        pad \in 0..3}

InitEncoding ==
    /\ pc = "ready"
    /\ call \in EncodingInputs
    /\ ret = "none"
    /\ logs = <<>>
    /\ maxResults = 1
    /\ options = <<>>
    /\ result = <<>>

\* detectEncoding(input) runs.
DetectEncoding ==
    /\ pc = "ready"
    /\ ret' = detectEncoding(call)
    /\ pc' = "classified"
    /\ UNCHANGED <<logs, maxResults, options, result, call>>

NextEncoding == DetectEncoding

SpecEncoding == InitEncoding /\ [][NextEncoding]_vars

\* The string consists of hexadecimal digits only.
AllHex(str) ==
    \A i \in DOMAIN str :
        str[i] \in {"0", "1", "2", "3", "4", "5", "6", "7", "8", "9",
                    "a", "b", "c", "d", "e", "f", "A", "B", "C", "D", "E", "F"}

\* The string consists of letters, digits, "+" and "/" followed by at most
\* two "=" that end it.
Base64Shaped(str) ==
    \E pad \in 0..2 :
        /\ pad <= Len(str)
        /\ \A i \in 1..(Len(str) - pad) :
              \/ str[i] \in Range(Lower) \cup Range(Upper) \cup Range(Digits)
              \/ str[i] \in {"+", "/"}
        /\ \A i \in (Len(str) - pad + 1)..Len(str) : str[i] = "="

\* C27: detectEncoding returns "hex" exactly when the string is of hex
\* digits only, longer than 10 characters and of even length; otherwise
\* "base64" exactly when it is longer than 10 characters and of base64
\* characters followed by at most two "="; otherwise null. A string of 10
\* characters or fewer gives null.
C27_DetectEncoding ==
    pc = "classified" =>
        LET hex == AllHex(call) /\ Len(call) > 10 /\ Len(call) % 2 = 0
            base64 == ~hex /\ Len(call) > 10 /\ Base64Shaped(call)
        IN  /\ ret = "hex" <=> hex
            /\ ret = "base64" <=> base64
            /\ ret = "null" <=> ~hex /\ ~base64
            /\ Len(call) <= 10 => ret = "null"

\* C27 witness: eleven hex digits are returned as base64, their number being
\* odd.
C27_Witness ==
    /\ pc = "classified"
    /\ AllHex(call)
    /\ Len(call) = 11
    /\ ret = "base64"

----------------------------------------------------------------------------
(* The two copies of matchCidr compared, under SpecCidr                    *)

\* C28: on an ip and a CIDR string whose ip and network part hold no ":",
\* the matchCidr of the filters module and the private one of the query
\* engine return the same boolean, for malformed addresses and for prefix
\* lengths that are missing, non-numeric or out of range as well.
C28_CopiesAgreeOnIpv4 ==
    (~includes(call.ip, <<":">>) /\ ~includes(CidrNetwork, <<":">>)) =>
        /\ pc = "filters" => ret = Returns(engine_matchCidr(call.ip, call.cidr))
        /\ pc = "engine" => ret = Returns(matchCidr(call.ip, call.cidr))

\* C28 witness: the query engine's copy has accepted a well-formed address
\* under a prefix length that is no number from 0 to 32.
C28_Witness ==
    /\ pc = "engine"
    /\ HasSlash
    /\ IsIpv4(call.ip)
    /\ ~IsIpv4Prefix(CidrPrefix)
    /\ ret = "true"
    /\ matchCidr(call.ip, call.cidr)

\* The data_exfiltration anomalies of the result.
ExfilAt == {i \in DOMAIN ret : ret[i].type = "data_exfiltration"}

\* C29: detectDataExfiltration reports no anomaly when fewer than 5 sources
\* have outbound bytes: with 3 or 4 of them Q3 is the largest total, so no
\* total is above Q3 + 3 * IQR, whatever the volumes.
C29_NoOutlierBelowFiveSources ==
    pc = "analysed" =>
        /\ Cardinality(Senders) < 5 => ExfilAt = {}
        /\ Cardinality(Senders) \in {3, 4} =>
              \A src \in Senders : BytesFrom(src, 1) <= StatisticalThreshold

\* C29 witness: of four sources with outbound bytes one has sent more than
\* the floor and the others a thousand bytes each, and nothing is reported.
C29_Witness ==
    /\ pc = "analysed"
    /\ Cardinality(Senders) = 4
    /\ \E src \in Senders :
          /\ BytesFrom(src, 1) > ExfilFloor
          /\ \A other \in Senders \ {src} : BytesFrom(other, 1) = 1000
    /\ ExfilAt = {}

----------------------------------------------------------------------------
(* A further claim about the filter evaluator, under SpecFilter            *)

\* C30: a value comparison never passes on a missing field: when the field
\* of the filter is absent from the record, applyFilter with op eq and with
\* op in returns false for every filter value, the strings "undefined" and
\* "null" among them.
C30_MissingFieldNeverPasses ==
    (/\ pc = "returned"
     /\ Resolved.t = "undefined"
     /\ call.filter.op \in {"eq", "in"})
    => ret = "false"

\* The same for filter values that are neither absent nor the string
\* "undefined", and lists that hold neither.
MissingFieldAgainstOtherValues ==
    (/\ pc = "returned"
     /\ Resolved.t = "undefined"
     /\ call.filter.op \in {"eq", "in"}
     /\ String(call.filter.value) # StrUndefined
     /\ call.filter.value.t = "array" =>
           \A i \in DOMAIN call.filter.value.v :
               String(call.filter.value.v[i]) # StrUndefined)
    => ret = "false"

====
